---- MODULE Spec2Model ----
(***************************************************************************)
(* Session manager of the forum backend: login with lockout, refresh-token *)
(* rotation with reuse detection, logout, password-reset requests and the  *)
(* moderation operations that change a user's status, over the user store  *)
(* and the refresh-token ledger (both kept by the relational store).       *)
(*                                                                         *)
(* Every handler is cut at its awaits on the store: one action per store   *)
(* statement, together with the synchronous code that follows it up to the *)
(* next store statement.  Requests run in the slots of Procs; a slot's     *)
(* locals (the snapshot a handler read) live in proc[p].                   *)
(*                                                                         *)
(* Time is counted in minutes.  A nullable column is a sequence of length  *)
(* at most one: <<>> is null, <<v>> is the value v.                        *)
(***************************************************************************)
EXTENDS Integers, Sequences, FiniteSets, TLC

VARIABLES
    users,     \* user store: id -> row (table users)
    ledger,    \* token ledger: tokenHash -> row (table refresh_tokens)
    proc,      \* request slots: the handler running in each, and its locals
    now,       \* the clock, in minutes
    nextTok,   \* the next raw token the random generators return
    rotCount,  \* history: per token hash, the refreshes that returned a pair for it
    consec,    \* history: per user, wrong-password logins completed since the last successful one
    last,      \* history: the call that completed last, and what it returned
    connections, \* WebSocketService.connections: userId -> the socket stored for it
    sockets    \* the WebSocket of each client: readyState, and where connect() stands

vars == <<users, ledger, proc, now, nextTok, rotCount, consec, last, connections, sockets>>

----------------------------------------------------------------------------
(* Bounds of the model *)

NProcs == 2            \* request slots that may run at once
MaxTokens == 3         \* raw tokens the generators hand out in one run
MaxFailedLogins == 6   \* wrong-password logins counted per account
MaxClock == 60         \* the clock of the login specifications stops here
TickMinutes == 15      \* one step of the clock
MaxNewUsers == 2       \* accounts registered in one run
NSockets == 3          \* WebSocket clients of one run

(* Program constants *)

LockThreshold == 5           \* failedLogins >= 5 locks the account
LockMinutes == 30            \* 30 * 60 * 1000 ms
ResetTokenMinutes == 60      \* 60 * 60 * 1000 ms
RefreshExpirationMinutes == 10080   \* JWT_REFRESH_EXPIRATION default '7d'

Procs == 1 .. NProcs
UserIds == {"u1", "u2"}
Null == <<>>
Some(v) == <<v>>
Val(n) == n[1]

----------------------------------------------------------------------------
(* Values *)

\* An e-mail as typed: its letters, and whether it was typed in capitals.
Emails == [addr : {"alice@x.com", "bob@x.com", "ghost@x.com"}, caps : BOOLEAN]
toLowerCase(e) == [e EXCEPT !.caps = FALSE]

\* A username as typed, in the same way.
Usernames == [name : {"alice", "bob", "ghost", "carol", "g2"}, caps : BOOLEAN]

\* isValidEmail: a string matching /^[^\s@]+@[^\s@]+\.[^\s@]+$/.
MatchesEmailRegex == {"alice@x.com", "bob@x.com", "ghost@x.com", "carol@x.com"}
isValidEmail(email) == IF email = Null THEN FALSE ELSE Val(email).addr \in MatchesEmailRegex

\* isValidUsername: a string matching /^[a-zA-Z][a-zA-Z0-9_-]{2,29}$/.
MatchesUsernameRegex == {"alice", "bob", "ghost", "carol"}
isValidUsername(username) ==
    IF username = Null THEN FALSE ELSE Val(username).name \in MatchesUsernameRegex

Passwords == {"Passw0rd1", "Passw0rd2", "wrong"}
bcryptHash(pw) == <<"bcrypt", pw>>
bcryptCompare(pw, hash) == hash = bcryptHash(pw)

\* What the validators look at in a password: its length, and whether it
\* holds a letter and a digit.  "Aa1*43" stands for "Aa1" written 43 times.
PasswordShape ==
    ("Passw0rd1" :> [length |-> 9, hasLetter |-> TRUE, hasNumber |-> TRUE]) @@
    ("Passw0rd2" :> [length |-> 9, hasLetter |-> TRUE, hasNumber |-> TRUE]) @@
    ("wrong" :> [length |-> 5, hasLetter |-> TRUE, hasNumber |-> FALSE]) @@
    ("short1a" :> [length |-> 7, hasLetter |-> TRUE, hasNumber |-> TRUE]) @@
    ("lettersonly" :> [length |-> 11, hasLetter |-> TRUE, hasNumber |-> FALSE]) @@
    ("12345678" :> [length |-> 8, hasLetter |-> FALSE, hasNumber |-> TRUE]) @@
    ("Aa1*43" :> [length |-> 129, hasLetter |-> TRUE, hasNumber |-> TRUE]) @@
    ("" :> [length |-> 0, hasLetter |-> FALSE, hasNumber |-> FALSE])

\* Faulty variant of isStrongPassword: no test of the length.
isStrongPassword_AnyLength(password) ==
    PasswordShape[password].hasLetter /\ PasswordShape[password].hasNumber

\* isStrongPassword: a non-empty string of 8 to 128 characters with a letter
\* and a digit.
isStrongPassword(password) ==
    LET shape == PasswordShape[password] IN
    IF password = "" THEN FALSE
    ELSE IF shape.length < 8 \/ shape.length > 128 THEN FALSE
    ELSE shape.hasLetter /\ shape.hasNumber

\* getPasswordStrengthFeedback: the list of the rules the password breaks.
getPasswordStrengthFeedback(password) ==
    LET shape == PasswordShape[password] IN
    (IF password = "" \/ shape.length < 8
     THEN <<"Password must be at least 8 characters">> ELSE << >>) \o
    (IF ~shape.hasLetter THEN <<"Password must contain at least one letter">> ELSE << >>) \o
    (IF ~shape.hasNumber THEN <<"Password must contain at least one number">> ELSE << >>)

\* Raw refresh tokens are 1 .. MaxTokens; one more value was never issued.
ForgedToken == MaxTokens + 1
RawTokens == 1 .. ForgedToken
hashToken(t) == <<"sha256", t>>

ROLE_HIERARCHY == [USER |-> 0, MODERATOR |-> 1, ADMIN |-> 2]
Roles == DOMAIN ROLE_HIERARCHY
isHigherRole_OrEqual(roleA, roleB) == ROLE_HIERARCHY[roleA] >= ROLE_HIERARCHY[roleB]
isHigherRole(roleA, roleB) == ROLE_HIERARCHY[roleA] > ROLE_HIERARCHY[roleB]

ErrInvalidCredentials == [type |-> "AuthenticationError", message |-> <<"Invalid email or password">>]
ErrLocked(minutesLeft) == [type |-> "AuthenticationError", message |-> <<"Account locked. Please try again in N minutes.", minutesLeft>>]
ErrBanned == [type |-> "AuthenticationError", message |-> <<"Your account has been banned">>]
ErrSuspended == [type |-> "AuthenticationError", message |-> <<"Your account is currently suspended">>]
ErrNoRefreshToken == [type |-> "AuthenticationError", message |-> <<"Refresh token not provided">>]
ErrInvalidRefreshToken == [type |-> "AuthenticationError", message |-> <<"Invalid refresh token">>]
ErrTokenRevoked == [type |-> "AuthenticationError", message |-> <<"Token has been revoked">>]
ErrTokenExpired == [type |-> "AuthenticationError", message |-> <<"Refresh token expired">>]
ErrNotActive == [type |-> "AuthenticationError", message |-> <<"Account is not active">>]
ErrRecordNotFound == [type |-> "PrismaClientKnownRequestError", message |-> <<"P2025">>]
ErrNotFoundUser == [type |-> "NotFoundError", message |-> <<"User">>]
ErrSelf == [type |-> "AuthorizationError", message |-> <<"You cannot do this to yourself">>]
ErrRole == [type |-> "AuthorizationError", message |-> <<"Cannot act on user with equal or higher role">>]
ErrInvalidEmail == [type |-> "ValidationError", message |-> <<"Invalid email format">>]
ErrInvalidUsername ==
    [type |-> "ValidationError",
     message |-> <<"Username must be 3-30 characters, start with a letter, and contain only letters, numbers, underscores, or hyphens">>]
ErrEmailTaken == [type |-> "ConflictError", message |-> <<"Email is already registered">>]
ErrUsernameTaken == [type |-> "ConflictError", message |-> <<"Username is already taken">>]
ErrUniqueConstraint ==
    [type |-> "PrismaClientKnownRequestError", message |-> <<"P2002 Unique constraint failed">>]
ErrCurrentPassword ==
    [type |-> "AuthenticationError", message |-> <<"Current password is incorrect">>]
ErrWeakPassword(password) ==
    [type |-> "ValidationError",
     message |-> <<"Password does not meet requirements">> \o getPasswordStrengthFeedback(password)]
ErrResetToken == [type |-> "ValidationError", message |-> <<"Invalid or expired reset token">>]
ErrVerifyToken ==
    [type |-> "ValidationError", message |-> <<"Invalid or expired verification token">>]
ErrAuthenticationRequired == [type |-> "AuthorizationError", message |-> <<"Authentication required">>]
ErrMinimumRole(minimumRole) == [type |-> "AuthorizationError", message |-> <<"Minimum role required: ", minimumRole>>]
ErrInvalidPermission == [type |-> "AuthorizationError", message |-> <<"Invalid permission">>]
ErrPermissionDenied(permission) == [type |-> "AuthorizationError", message |-> <<"Permission denied: ", permission>>]
ErrIncludesNotAFunction == [type |-> "TypeError", message |-> <<"allowedRoles.includes is not a function">>]
ErrDeleteSelf == [type |-> "AuthorizationError", message |-> <<"You cannot delete yourself">>]
ErrDeleteAdmin == [type |-> "AuthorizationError", message |-> <<"Cannot delete an admin">>]
Ok == [type |-> "ok", message |-> <<>>]

----------------------------------------------------------------------------
(* UserRepository: each operator is one statement on the table users *)

\* findByEmail: null for a missing e-mail, else the row whose stored
\* (lower-case) e-mail equals the lower-cased argument.  Returns the id.
findByEmail(us, email) ==
    IF email = Null THEN Null
    ELSE LET hit == {id \in DOMAIN us : us[id].email = toLowerCase(Val(email))}
         IN  IF hit = {} THEN Null ELSE Some(CHOOSE id \in hit : TRUE)

findById(us, id) == IF id \in DOMAIN us THEN Some(us[id]) ELSE Null

\* emailExists / usernameExists: findUnique on the lower-cased value.
emailExists(us, email) == \E id \in DOMAIN us : us[id].email = toLowerCase(email)
usernameExists(us, username) == \E id \in DOMAIN us : us[id].username = toLowerCase(username)

\* The unique indexes users_email_key and users_username_key reject the
\* insert (P2002).
CreateRejects(us, email, username) == emailExists(us, email) \/ usernameExists(us, username)

\* create: e-mail and username stored in lower case, the columns not given
\* take the defaults of the table.
UserCreate(us, id, email, username, passwordHash, verifyToken) ==
    us @@ (id :> [email |-> toLowerCase(email), username |-> toLowerCase(username),
                  passwordHash |-> passwordHash,
                  role |-> "USER", status |-> "PENDING_VERIFICATION", emailVerified |-> FALSE,
                  failedLogins |-> 0, lockedUntil |-> Null,
                  verifyToken |-> Some(verifyToken), resetToken |-> Null,
                  resetTokenExpiry |-> Null])

\* A field of a request body as the controllers pass it on: absent
\* (undefined), JSON null, or a value.
Absent == [kind |-> "undefined"]
JsNull == [kind |-> "null"]
Given(v) == [kind |-> "value", value |-> v]

\* A Prisma filter { column: field }: an undefined field is no filter at all,
\* null selects the rows whose column is NULL, a value the rows that hold it.
WhereEquals(field, column) ==
    IF field = Absent THEN TRUE
    ELSE IF field = JsNull THEN column = Null
    ELSE column = Some(field.value)

\* The rows that findFirst where verifyToken = token can return.
verifyTokenMatches(us, token) ==
    {id \in DOMAIN us : WhereEquals(token, us[id].verifyToken)}

\* The token a body field presents, as a nullable value.
Presented(field) == IF field \in {Absent, JsNull} THEN Null ELSE Some(field.value)

\* verifyEmail, first statement: findFirst where verifyToken = token.
findByVerifyToken(us, token) ==
    LET hit == verifyTokenMatches(us, token)
    IN  IF hit = {} THEN Null ELSE Some(CHOOSE id \in hit : TRUE)

\* Faulty variant of applyVerifyEmail: the token stays on the row.
applyVerifyEmail_KeepsToken(us, id) ==
    [us EXCEPT ![id].emailVerified = TRUE, ![id].status = "ACTIVE"]

\* verifyEmail, second statement: update where id.
applyVerifyEmail(us, id) ==
    [us EXCEPT ![id].emailVerified = TRUE, ![id].verifyToken = Null, ![id].status = "ACTIVE"]

\* update(id, { passwordHash }).
updatePasswordHash(us, id, passwordHash) == [us EXCEPT ![id].passwordHash = passwordHash]

\* update(id, { role }).
updateRole(us, id, role) == [us EXCEPT ![id].role = role]

\* update(id, data) for the one column the moderation operations write.
updateStatus(us, id, status) == [us EXCEPT ![id].status = status]

updateLoginInfo(us, id) ==
    [us EXCEPT ![id].failedLogins = 0, ![id].lockedUntil = Null]

\* Faulty variant of incrementColumn: read-modify-write, the new value
\* computed from the row the request read when it started.
incrementColumn_ReadModifyWrite(us, id, seen) == [us EXCEPT ![id].failedLogins = seen + 1]

\* incrementFailedLogins, first statement: failedLogins: { increment: 1 },
\* executed by the store on the stored value; `seen` is the value the caller
\* read at the start of the request and plays no part.
incrementColumn(us, id, seen) == [us EXCEPT ![id].failedLogins = @ + 1]

\* Faulty variant of shouldLock: locks one failure late.
shouldLock_Late(failedLogins) == failedLogins > LockThreshold

\* incrementFailedLogins, the test on the value the first statement returned.
shouldLock(failedLogins) == failedLogins >= LockThreshold

\* incrementFailedLogins, second statement.
lockAccount(us, id, t) == [us EXCEPT ![id].lockedUntil = Some(t + LockMinutes)]

\* setResetToken: update where email = email.toLowerCase().
setResetToken(us, email, token, t) ==
    [id \in DOMAIN us |->
        IF us[id].email = toLowerCase(email)
        THEN [us[id] EXCEPT !.resetToken = Some(token),
                            !.resetTokenExpiry = Some(t + ResetTokenMinutes)]
        ELSE us[id]]

\* resetPassword, first statement: findFirst where resetToken = token and
\* resetTokenExpiry > now.  Returns the id, or null.
resetTokenMatches(us, token, t) ==
    {id \in DOMAIN us : /\ WhereEquals(token, us[id].resetToken)
                         /\ us[id].resetTokenExpiry # Null
                         /\ Val(us[id].resetTokenExpiry) > t}

findByResetToken(us, token, t) ==
    LET hit == resetTokenMatches(us, token, t)
    IN  IF hit = {} THEN Null ELSE Some(CHOOSE id \in hit : TRUE)

\* Faulty variant of applyResetPassword: the reset token stays on the row.
applyResetPassword_KeepsToken(us, id, passwordHash) ==
    [us EXCEPT ![id].passwordHash = passwordHash, ![id].failedLogins = 0,
               ![id].lockedUntil = Null]

\* resetPassword, second statement: update where id.
applyResetPassword(us, id, passwordHash) ==
    [us EXCEPT ![id].passwordHash = passwordHash, ![id].resetToken = Null,
               ![id].resetTokenExpiry = Null, ![id].failedLogins = 0,
               ![id].lockedUntil = Null]

----------------------------------------------------------------------------
(* TokenRepository: each operator is one statement on refresh_tokens *)

getTokenExpiration(t) == t + RefreshExpirationMinutes

TokenCreate(lg, tokenHash, userId, t) ==
    lg @@ (tokenHash :> [userId |-> userId, expiresAt |-> getTokenExpiration(t),
                         revokedAt |-> Null, replacedBy |-> Null])

\* findByHash: the row, with the owning user joined in, or null.
findByHash(lg, us, tokenHash) ==
    IF tokenHash \in DOMAIN lg
    THEN Some([row |-> lg[tokenHash], user |-> findById(us, lg[tokenHash].userId)])
    ELSE Null

\* Faulty variant of TokenRevoke: records the successor and forgets revokedAt.
TokenRevoke_KeepsLive(lg, tokenHash, replacedBy, t) ==
    [lg EXCEPT ![tokenHash].replacedBy = replacedBy]

\* Faulty variant of TokenRevoke: a second revoke of a row clears revokedAt.
TokenRevoke_Toggle(lg, tokenHash, replacedBy, t) ==
    [lg EXCEPT ![tokenHash].revokedAt = IF @ = Null THEN Some(t) ELSE Null,
               ![tokenHash].replacedBy = replacedBy]

\* revoke(tokenHash, replacedBy = null): update ... where tokenHash.  The
\* statement rejects (P2025) when no row has that hash; the callers test
\* RevokeRejects first.
RevokeRejects(lg, tokenHash) == tokenHash \notin DOMAIN lg

TokenRevoke(lg, tokenHash, replacedBy, t) ==
    [lg EXCEPT ![tokenHash].revokedAt = Some(t), ![tokenHash].replacedBy = replacedBy]

\* Faulty variant of revokeAllForUser: revokes nothing.
revokeAllForUser_Skips(lg, userId, t) == lg

\* Faulty variant of revokeAllForUser: without the revokedAt filter.
revokeAllForUser_Restamps(lg, userId, t) ==
    [h \in DOMAIN lg |->
        IF lg[h].userId = userId
        THEN [lg[h] EXCEPT !.revokedAt = Some(t)]
        ELSE lg[h]]

\* revokeAllForUser: updateMany where userId and revokedAt is null.
revokeAllForUser(lg, userId, t) ==
    [h \in DOMAIN lg |->
        IF lg[h].userId = userId /\ lg[h].revokedAt = Null
        THEN [lg[h] EXCEPT !.revokedAt = Some(t)]
        ELSE lg[h]]

\* deleteExpired: deleteMany where expiresAt < now OR revokedAt is not null.
deleteExpired(lg, t) ==
    LET gone == {h \in DOMAIN lg : lg[h].expiresAt < t \/ lg[h].revokedAt # Null}
    IN  [h \in DOMAIN lg \ gone |-> lg[h]]

\* Live tokens of a user: unrevoked rows (getActiveSessions without the expiry test).
Unrevoked(lg, userId) == {h \in DOMAIN lg : lg[h].userId = userId /\ lg[h].revokedAt = Null}

----------------------------------------------------------------------------
(* Request slots and the record of the last completed call *)

Idle == [pc |-> "idle", uid |-> "", tok |-> Null, newTok |-> Null, late |-> FALSE,
         seen |-> 0, issuedStatus |-> Null, pw |-> "", email |-> Null, username |-> Null]

\* op: the handler; res: what it returned or raised; uid: the account it
\* concerned; late: (refresh) the presented token had already been rotated by
\* a refresh that returned before this one started; compared: (login)
\* bcrypt.compare was called; lockedAtStart: (login) lockedUntil was in the
\* future when the account was read; failedDelta: (login) change of the stored
\* failedLogins over the call; lockedFor: (login) the minutes from the return
\* of the call to the stored lockedUntil; issuedStatus: the stored status when
\* the refresh-token row was inserted; live: (refresh, reuse detected)
\* unrevoked rows of the account when the call returned; found: the looked-up row existed; wasRevoked:
\* (logout) the row was revoked before the call; changed: the call wrote to
\* a table; rightPw: the (current) password typed was the account's; pw: the
\* new password asked for; tok: (verifyEmail) the token presented; actor: (user
\* routes) the authenticated caller; request, name: (guards) the user attached
\* to the request and the role or permission name the guard was built with;
\* absent: (verifyEmail, resetPassword) the token field was undefined or null.
NoCall == [op |-> "none", res |-> Ok, uid |-> Null, late |-> FALSE, compared |-> FALSE,
           lockedAtStart |-> FALSE, failedDelta |-> 0, lockedFor |-> Null,
           issuedStatus |-> Null, live |-> 0, found |-> FALSE, wasRevoked |-> FALSE,
           changed |-> FALSE, rightPw |-> FALSE, pw |-> "", tok |-> Null, actor |-> Null,
           request |-> Null, name |-> "", absent |-> FALSE]

Call(op, res) == [NoCall EXCEPT !.op = op, !.res = res]

Quiet == \A q \in Procs : proc[q].pc = "idle"

----------------------------------------------------------------------------
(* AuthService.login *)

isLocked(user, t) == user.lockedUntil # Null /\ Val(user.lockedUntil) > t

\* Minutes from t to a nullable timestamp (null stays null).
MinutesTo(stamp, t) == IF stamp = Null THEN Null ELSE Some(Val(stamp) - t)

\* Faulty variant of LoginCheck: the status is tested before the password.
LoginCheck_StatusFirst(user, password, t) ==
    IF isLocked(user, t) THEN "locked"
    ELSE IF user.status = "BANNED" THEN "banned"
    ELSE IF user.status = "SUSPENDED" THEN "suspended"
    ELSE IF ~bcryptCompare(password, user.passwordHash) THEN "mismatch"
    ELSE "pass"

LoginCheck_IgnoresStatus(user, password, t) ==
    IF isLocked(user, t) THEN "locked"
    ELSE IF ~bcryptCompare(password, user.passwordHash) THEN "mismatch"
    ELSE "pass"

\* The checks of login on the row it read, in the order of the code: lock,
\* password, status.
LoginCheck(user, password, t) ==
    IF isLocked(user, t) THEN "locked"
    ELSE IF ~bcryptCompare(password, user.passwordHash) THEN "mismatch"
    ELSE IF user.status = "BANNED" THEN "banned"
    ELSE IF user.status = "SUSPENDED" THEN "suspended"
    ELSE "pass"

\* What login raises when findByEmail returns no row.
LoginNoUser == ErrInvalidCredentials

\* What login raises once incrementFailedLogins has returned.
LoginMismatch == ErrInvalidCredentials

\* What a login call made in store state us at time t ends with.
LoginOutcome(us, t, email, password) ==
    LET found == findByEmail(us, email) IN
    IF found = Null THEN LoginNoUser
    ELSE LET user == us[Val(found)]
             check == LoginCheck(user, password, t)
         IN  CASE check = "locked" -> ErrLocked(Val(user.lockedUntil) - t)
               [] check = "mismatch" -> LoginMismatch
               [] check = "banned" -> ErrBanned
               [] check = "suspended" -> ErrSuspended
               [] OTHER -> Ok

\* Wrong-password logins in flight for an account (read, not yet counted).
Counting(id) == Cardinality({q \in Procs : proc[q].pc = "increment" /\ proc[q].uid = id})

\* login up to its first write: findByEmail, the lock test, bcrypt.compare,
\* the status tests and the generation of the token pair.
LoginStart(p, email, password) ==
    /\ proc[p].pc = "idle"
    /\ LET found == findByEmail(users, email) IN
       IF found = Null
       THEN /\ last' = Call("login", LoginOutcome(users, now, email, password))
            /\ UNCHANGED <<users, ledger, proc, now, nextTok, rotCount, consec, connections, sockets>>
       ELSE LET id == Val(found)
                user == users[id]
                check == LoginCheck(user, password, now)
                rightPw == bcryptCompare(password, user.passwordHash)
                done(res) == [Call("login", res) EXCEPT !.uid = found, !.found = TRUE,
                                 !.rightPw = rightPw,
                                 !.compared = (check # "locked"),
                                 !.lockedAtStart = isLocked(user, now),
                                 !.lockedFor = MinutesTo(user.lockedUntil, now)]
            IN  CASE check = "locked" ->
                       /\ last' = done(LoginOutcome(users, now, email, password))
                       /\ UNCHANGED <<users, ledger, proc, now, nextTok, rotCount, consec, connections, sockets>>
                  [] check = "mismatch" ->
                       /\ user.failedLogins + Counting(id) < MaxFailedLogins
                       /\ proc' = [proc EXCEPT ![p] = [Idle EXCEPT !.pc = "increment", !.uid = id,
                                                        !.seen = user.failedLogins]]
                       /\ UNCHANGED <<users, ledger, now, nextTok, rotCount, consec, last, connections, sockets>>
                  [] check = "banned" ->
                       /\ last' = done(LoginOutcome(users, now, email, password))
                       /\ UNCHANGED <<users, ledger, proc, now, nextTok, rotCount, consec, connections, sockets>>
                  [] check = "suspended" ->
                       /\ last' = done(LoginOutcome(users, now, email, password))
                       /\ UNCHANGED <<users, ledger, proc, now, nextTok, rotCount, consec, connections, sockets>>
                  [] OTHER ->
                       /\ nextTok <= MaxTokens
                       /\ proc' = [proc EXCEPT ![p] = [Idle EXCEPT !.pc = "createToken", !.uid = id,
                                                        !.newTok = Some(nextTok),
                                                        !.seen = user.failedLogins]]
                       /\ nextTok' = nextTok + 1
                       /\ UNCHANGED <<users, ledger, now, rotCount, consec, last, connections, sockets>>

\* incrementFailedLogins, first statement, and the test on its result.
LoginIncrement(p) ==
    /\ proc[p].pc = "increment"
    /\ LET id == proc[p].uid
           us == incrementColumn(users, id, proc[p].seen)
       IN  /\ users' = us
           /\ IF shouldLock(us[id].failedLogins)
              THEN /\ proc' = [proc EXCEPT ![p].pc = "lock"]
                   /\ UNCHANGED <<consec, last, connections, sockets>>
              ELSE /\ proc' = [proc EXCEPT ![p] = Idle]
                   /\ consec' = [consec EXCEPT ![id] = @ + 1]
                   /\ last' = [Call("login", LoginMismatch) EXCEPT !.uid = Some(id), !.found = TRUE,
                                  !.compared = TRUE, !.changed = TRUE,
                                  !.failedDelta = us[id].failedLogins - proc[p].seen,
                                  !.lockedFor = MinutesTo(us[id].lockedUntil, now)]
    /\ UNCHANGED <<ledger, now, nextTok, rotCount, connections, sockets>>

\* incrementFailedLogins, second statement: lock the account.
LoginLock(p) ==
    /\ proc[p].pc = "lock"
    /\ LET id == proc[p].uid
           us == lockAccount(users, id, now)
       IN  /\ users' = us
           /\ proc' = [proc EXCEPT ![p] = Idle]
           /\ consec' = [consec EXCEPT ![id] = @ + 1]
           /\ last' = [Call("login", LoginMismatch) EXCEPT !.uid = Some(id), !.found = TRUE,
                          !.compared = TRUE, !.changed = TRUE,
                          !.failedDelta = us[id].failedLogins - proc[p].seen,
                          !.lockedFor = MinutesTo(us[id].lockedUntil, now)]
    /\ UNCHANGED <<ledger, now, nextTok, rotCount, connections, sockets>>

\* tokenRepository.create of login.
LoginCreateToken(p) ==
    /\ proc[p].pc = "createToken"
    /\ ledger' = TokenCreate(ledger, hashToken(Val(proc[p].newTok)), proc[p].uid, now)
    /\ proc' = [proc EXCEPT ![p].pc = "updateLoginInfo",
                            ![p].issuedStatus = Some(users[proc[p].uid].status)]
    /\ UNCHANGED <<users, now, nextTok, rotCount, consec, last, connections, sockets>>

\* userRepository.updateLoginInfo, and the return of the pair.
LoginUpdateInfo(p) ==
    /\ proc[p].pc = "updateLoginInfo"
    /\ LET id == proc[p].uid
           us == updateLoginInfo(users, id)
       IN  /\ users' = us
           /\ consec' = [consec EXCEPT ![id] = 0]
           /\ last' = [Call("login", Ok) EXCEPT !.uid = Some(id), !.found = TRUE,
                          !.compared = TRUE, !.changed = TRUE, !.rightPw = TRUE,
                          !.failedDelta = us[id].failedLogins - proc[p].seen,
                          !.lockedFor = MinutesTo(us[id].lockedUntil, now),
                          !.issuedStatus = proc[p].issuedStatus]
    /\ proc' = [proc EXCEPT ![p] = Idle]
    /\ UNCHANGED <<ledger, now, nextTok, rotCount, connections, sockets>>

----------------------------------------------------------------------------
(* AuthService.refreshToken *)

RefreshCheck_NoExpiry(stored, t) ==
    IF stored = Null THEN "unknown"
    ELSE IF Val(stored).row.revokedAt # Null THEN "reuse"
    ELSE IF \/ Val(stored).user = Null
            \/ Val(Val(stored).user).status \in {"BANNED", "SUSPENDED"} THEN "inactive"
    ELSE "pass"

\* The checks of refreshToken on what findByHash returned, in the order of
\* the code: found, revoked, expired, owner active.
RefreshCheck(stored, t) ==
    IF stored = Null THEN "unknown"
    ELSE IF Val(stored).row.revokedAt # Null THEN "reuse"
    ELSE IF Val(stored).row.expiresAt < t THEN "expired"
    ELSE IF \/ Val(stored).user = Null
            \/ Val(Val(stored).user).status \in {"BANNED", "SUSPENDED"} THEN "inactive"
    ELSE "pass"

\* refreshToken up to its first write: the missing-token test, findByHash,
\* the checks and the generation of the new pair.
RefreshStart(p, refreshToken) ==
    /\ proc[p].pc = "idle"
    /\ IF refreshToken = Null
       THEN /\ last' = Call("refresh", ErrNoRefreshToken)
            /\ UNCHANGED <<users, ledger, proc, now, nextTok, rotCount, consec, connections, sockets>>
       ELSE LET tokenHash == hashToken(Val(refreshToken))
                stored == findByHash(ledger, users, tokenHash)
                check == RefreshCheck(stored, now)
                late == rotCount[tokenHash] > 0
                done(res) == [Call("refresh", res) EXCEPT !.late = late]
            IN  CASE check = "unknown" ->
                       /\ last' = done(ErrInvalidRefreshToken)
                       /\ UNCHANGED <<users, ledger, proc, now, nextTok, rotCount, consec, connections, sockets>>
                  [] check = "reuse" ->
                       /\ proc' = [proc EXCEPT ![p] = [Idle EXCEPT !.pc = "reuse", !.late = late,
                                                        !.tok = Some(tokenHash),
                                                        !.uid = Val(stored).row.userId]]
                       /\ UNCHANGED <<users, ledger, now, nextTok, rotCount, consec, last, connections, sockets>>
                  [] check = "expired" ->
                       /\ last' = done(ErrTokenExpired)
                       /\ UNCHANGED <<users, ledger, proc, now, nextTok, rotCount, consec, connections, sockets>>
                  [] check = "inactive" ->
                       /\ last' = done(ErrNotActive)
                       /\ UNCHANGED <<users, ledger, proc, now, nextTok, rotCount, consec, connections, sockets>>
                  [] OTHER ->
                       /\ nextTok <= MaxTokens
                       /\ proc' = [proc EXCEPT ![p] = [Idle EXCEPT !.pc = "revoke", !.late = late,
                                                        !.tok = Some(tokenHash),
                                                        !.newTok = Some(nextTok),
                                                        !.uid = Val(stored).row.userId]]
                       /\ nextTok' = nextTok + 1
                       /\ UNCHANGED <<users, ledger, now, rotCount, consec, last, connections, sockets>>

\* Reuse detected: revokeAllForUser, then the error.
RefreshReuse(p) ==
    /\ proc[p].pc = "reuse"
    /\ LET lg == revokeAllForUser(ledger, proc[p].uid, now)
       IN  /\ ledger' = lg
           /\ last' = [Call("refresh", ErrTokenRevoked) EXCEPT !.late = proc[p].late,
                          !.live = Cardinality(Unrevoked(lg, proc[p].uid))]
    /\ proc' = [proc EXCEPT ![p] = Idle]
    /\ UNCHANGED <<users, now, nextTok, rotCount, consec, connections, sockets>>

\* tokenRepository.revoke(tokenHash, newRefreshTokenHash).
RefreshRevoke(p) ==
    /\ proc[p].pc = "revoke"
    /\ IF RevokeRejects(ledger, Val(proc[p].tok))
       THEN /\ last' = [Call("refresh", ErrRecordNotFound) EXCEPT !.late = proc[p].late]
            /\ proc' = [proc EXCEPT ![p] = Idle]
            /\ UNCHANGED ledger
       ELSE /\ ledger' = TokenRevoke(ledger, Val(proc[p].tok),
                                     Some(hashToken(Val(proc[p].newTok))), now)
            /\ proc' = [proc EXCEPT ![p].pc = "create"]
            /\ UNCHANGED last
    /\ UNCHANGED <<users, now, nextTok, rotCount, consec, connections, sockets>>

\* tokenRepository.create of the successor, and the return of the new pair.
RefreshCreate(p) ==
    /\ proc[p].pc = "create"
    /\ LET lg == TokenCreate(ledger, hashToken(Val(proc[p].newTok)), proc[p].uid, now)
       IN  /\ ledger' = lg
           /\ last' = [Call("refresh", Ok) EXCEPT !.late = proc[p].late,
                          !.issuedStatus = Some(users[proc[p].uid].status)]
    /\ rotCount' = [rotCount EXCEPT ![Val(proc[p].tok)] = @ + 1]
    /\ proc' = [proc EXCEPT ![p] = Idle]
    /\ UNCHANGED <<users, now, nextTok, consec, connections, sockets>>

----------------------------------------------------------------------------
(* AuthService.logout, logoutAll; TokenRepository.deleteExpired *)

\* logout: nothing for a missing token, else tokenRepository.revoke(tokenHash).
Logout(refreshToken) ==
    /\ IF refreshToken = Null
       THEN /\ last' = Call("logout", Ok)
            /\ UNCHANGED ledger
       ELSE LET tokenHash == hashToken(Val(refreshToken)) IN
            IF RevokeRejects(ledger, tokenHash)
            THEN /\ last' = Call("logout", ErrRecordNotFound)
                 /\ UNCHANGED ledger
            ELSE LET lg == TokenRevoke(ledger, tokenHash, Null, now)
                 IN  /\ ledger' = lg
                     /\ last' = [Call("logout", Ok) EXCEPT !.found = TRUE,
                                    !.wasRevoked = (ledger[tokenHash].revokedAt # Null)]
    /\ UNCHANGED <<users, proc, now, nextTok, rotCount, consec, connections, sockets>>

LogoutAll(userId) ==
    /\ LET lg == revokeAllForUser(ledger, userId, now)
       IN  /\ ledger' = lg
           /\ last' = Call("logoutAll", Ok)
    /\ UNCHANGED <<users, proc, now, nextTok, rotCount, consec, connections, sockets>>

DeleteExpired ==
    /\ ledger' = deleteExpired(ledger, now)
    /\ ledger' # ledger
    /\ UNCHANGED <<users, proc, now, nextTok, rotCount, consec, last, connections, sockets>>

----------------------------------------------------------------------------
(* The user routes that change a status: authenticate, the route's guard,   *)
(* then UserService.  Each is taken as one step.                            *)

Everyone == {"USER", "MODERATOR", "ADMIN"}
Staff == {"MODERATOR", "ADMIN"}
AdminOnly == {"ADMIN"}

PERMISSIONS ==
    ("topic:create" :> Everyone) @@ ("topic:edit:own" :> Everyone) @@
    ("topic:edit:any" :> Staff) @@ ("topic:delete:own" :> Everyone) @@
    ("topic:delete:any" :> Staff) @@ ("topic:pin" :> Staff) @@
    ("topic:lock" :> Staff) @@ ("topic:move" :> Staff) @@
    ("post:create" :> Everyone) @@ ("post:edit:own" :> Everyone) @@
    ("post:edit:any" :> Staff) @@ ("post:delete:own" :> Everyone) @@
    ("post:delete:any" :> Staff) @@ ("post:hide" :> Staff) @@
    ("user:view:profile" :> Everyone) @@ ("user:edit:own" :> Everyone) @@
    ("user:edit:any" :> AdminOnly) @@ ("user:warn" :> Staff) @@
    ("user:suspend" :> Staff) @@ ("user:ban" :> AdminOnly) @@
    ("user:delete" :> AdminOnly) @@ ("user:change:role" :> AdminOnly) @@
    ("category:create" :> AdminOnly) @@ ("category:edit" :> AdminOnly) @@
    ("category:delete" :> AdminOnly) @@
    ("moderation:view:logs" :> Staff) @@ ("moderation:manage:reports" :> Staff) @@
    ("admin:access" :> AdminOnly) @@ ("admin:settings" :> AdminOnly) @@
    ("admin:analytics" :> AdminOnly)

\* ROLE_HIERARCHY and PERMISSIONS are object literals: obj[name] is the
\* object's own property when it has one, otherwise the member of
\* Object.prototype of that name (a function, or the prototype itself for
\* "__proto__"), otherwise undefined.
ObjectPrototypeNames ==
    {"constructor", "toString", "toLocaleString", "valueOf", "hasOwnProperty",
     "isPrototypeOf", "propertyIsEnumerable", "__proto__", "__defineGetter__",
     "__defineSetter__", "__lookupGetter__", "__lookupSetter__"}
Undefined == [kind |-> "undefined"]
Inherited == [kind |-> "object"]
Own(v) == [kind |-> "own", value |-> v]
GetProperty(obj, name) ==
    IF name \in DOMAIN obj THEN Own(obj[name])
    ELSE IF name \in ObjectPrototypeNames THEN Inherited
    ELSE Undefined

\* value ?? fallback, for a table of numbers.
Coalesce(v, fallback) == IF v = Undefined THEN Own(fallback) ELSE v

\* a < b: a function or a plain object converts to NaN, and every comparison
\* with NaN is false.
LessThan(a, b) == a.kind = "own" /\ b.kind = "own" /\ a.value < b.value

\* A request is Null when no user is attached, otherwise Some([role |-> r]).
requireMinimumRole(request, minimumRole) ==
    IF request = Null THEN ErrAuthenticationRequired
    ELSE LET userLevel == Coalesce(GetProperty(ROLE_HIERARCHY, Val(request).role), -1)
             requiredLevel == Coalesce(GetProperty(ROLE_HIERARCHY, minimumRole), 999)
         IN  IF LessThan(userLevel, requiredLevel) THEN ErrMinimumRole(minimumRole)
             ELSE Ok

requirePermissionGuard(request, permission) ==
    IF request = Null THEN ErrAuthenticationRequired
    ELSE LET allowedRoles == GetProperty(PERMISSIONS, permission)
         IN  IF allowedRoles = Undefined THEN ErrInvalidPermission
             ELSE IF allowedRoles = Inherited THEN ErrIncludesNotAFunction
             ELSE IF Val(request).role \notin allowedRoles.value
                  THEN ErrPermissionDenied(permission)
             ELSE Ok

\* authenticate: the caller's row exists and is neither banned nor suspended.
authenticate(us, actor) ==
    actor \in DOMAIN us /\ us[actor].status \notin {"BANNED", "SUSPENDED"}

\* requirePermission after authenticate has attached the caller's row.
requirePermission(us, actor, permission) ==
    requirePermissionGuard(Some([role |-> us[actor].role]), permission) = Ok

requireRole(us, actor, allowedRoles) == us[actor].role \in allowedRoles

\* UserService.suspendUser: [res, users].
suspendUser(us, userId, actor) ==
    IF findById(us, userId) = Null THEN [res |-> ErrNotFoundUser, users |-> us]
    ELSE IF userId = actor THEN [res |-> ErrSelf, users |-> us]
    ELSE IF ~isHigherRole(us[actor].role, us[userId].role) THEN [res |-> ErrRole, users |-> us]
    ELSE [res |-> Ok, users |-> updateStatus(us, userId, "SUSPENDED")]

\* UserService.banUser: [res, users].
banUser(us, userId, actor) ==
    IF findById(us, userId) = Null THEN [res |-> ErrNotFoundUser, users |-> us]
    ELSE IF userId = actor THEN [res |-> ErrSelf, users |-> us]
    ELSE IF us[userId].role = "ADMIN" THEN [res |-> ErrRole, users |-> us]
    ELSE [res |-> Ok, users |-> updateStatus(us, userId, "BANNED")]

\* UserService.activateUser: [res, users].
activateUser(us, userId, actor) ==
    IF findById(us, userId) = Null THEN [res |-> ErrNotFoundUser, users |-> us]
    ELSE [res |-> Ok, users |-> updateStatus(us, userId, "ACTIVE")]

\* UserService.changeRole: [res, users].
changeRole(us, userId, newRole, actor) ==
    IF userId = actor THEN [res |-> ErrSelf, users |-> us]
    ELSE IF findById(us, userId) = Null THEN [res |-> ErrNotFoundUser, users |-> us]
    ELSE IF ~isHigherRole(us[actor].role, us[userId].role) THEN [res |-> ErrRole, users |-> us]
    ELSE [res |-> Ok, users |-> updateRole(us, userId, newRole)]

ChangeRole(userId, newRole, actor) ==
    /\ authenticate(users, actor)
    /\ requireRole(users, actor, {"ADMIN"})
    /\ LET r == changeRole(users, userId, newRole, actor)
       IN  /\ users' = r.users
           /\ last' = [Call("changeRole", r.res) EXCEPT !.uid = Some(userId),
                          !.actor = Some(actor), !.changed = (r.users # users)]
    /\ UNCHANGED <<ledger, proc, now, nextTok, rotCount, consec, connections, sockets>>

SuspendUser(userId, actor) ==
    /\ authenticate(users, actor)
    /\ requirePermission(users, actor, "user:suspend")
    /\ LET r == suspendUser(users, userId, actor)
       IN  /\ users' = r.users
           /\ last' = [Call("suspendUser", r.res) EXCEPT !.uid = Some(userId),
                          !.actor = Some(actor), !.changed = (r.users # users)]
    /\ UNCHANGED <<ledger, proc, now, nextTok, rotCount, consec, connections, sockets>>

\* userRepository.delete: the row goes, and with it (ON DELETE CASCADE) the
\* refresh tokens of the account.
deleteRow(us, id) == [x \in DOMAIN us \ {id} |-> us[x]]
cascadeTokens(lg, id) == [h \in {x \in DOMAIN lg : lg[x].userId # id} |-> lg[h]]

\* Faulty variant of deleteUser: without the test on the target's role.
deleteUser_AnyTarget(us, userId, actor) ==
    IF findById(us, userId) = Null THEN [res |-> ErrNotFoundUser, users |-> us]
    ELSE IF userId = actor THEN [res |-> ErrDeleteSelf, users |-> us]
    ELSE [res |-> Ok, users |-> deleteRow(us, userId)]

\* UserService.deleteUser: [res, users].
deleteUser(us, userId, actor) ==
    IF findById(us, userId) = Null THEN [res |-> ErrNotFoundUser, users |-> us]
    ELSE IF userId = actor THEN [res |-> ErrDeleteSelf, users |-> us]
    ELSE IF us[userId].role = "ADMIN" THEN [res |-> ErrDeleteAdmin, users |-> us]
    ELSE [res |-> Ok, users |-> deleteRow(us, userId)]

DeleteUser(userId, actor) ==
    /\ authenticate(users, actor)
    /\ requireRole(users, actor, {"ADMIN"})
    /\ LET r == deleteUser(users, userId, actor)
       IN  /\ users' = r.users
           /\ ledger' = IF r.res = Ok THEN cascadeTokens(ledger, userId) ELSE ledger
           /\ last' = [Call("deleteUser", r.res) EXCEPT !.uid = Some(userId),
                          !.actor = Some(actor), !.changed = (r.users # users)]
    /\ UNCHANGED <<proc, now, nextTok, rotCount, consec, connections, sockets>>

BanUser(userId, actor) ==
    /\ authenticate(users, actor)
    /\ requireRole(users, actor, {"ADMIN"})
    /\ LET r == banUser(users, userId, actor)
       IN  /\ users' = r.users
           /\ last' = [Call("banUser", r.res) EXCEPT !.uid = Some(userId),
                          !.actor = Some(actor), !.changed = (r.users # users)]
    /\ UNCHANGED <<ledger, proc, now, nextTok, rotCount, consec, connections, sockets>>

ActivateUser(userId, actor) ==
    /\ authenticate(users, actor)
    /\ requirePermission(users, actor, "user:suspend")
    /\ LET r == activateUser(users, userId, actor)
       IN  /\ users' = r.users
           /\ last' = [Call("activateUser", r.res) EXCEPT !.uid = Some(userId),
                          !.actor = Some(actor), !.changed = (r.users # users)]
    /\ UNCHANGED <<ledger, proc, now, nextTok, rotCount, consec, connections, sockets>>

----------------------------------------------------------------------------
(* AuthService.requestPasswordReset *)

\* Faulty variant of ResetRequestReply: says so when the e-mail is unknown.
ResetRequestReply_Reveals(found) ==
    IF found = Null
    THEN [message |-> "No account with that email"]
    ELSE [message |-> "If the email exists, a reset link has been sent"]

\* The result object of requestPasswordReset, by whether findByEmail found a row.
ResetRequestReply(found) ==
    IF found = Null
    THEN [message |-> "If the email exists, a reset link has been sent"]
    ELSE [message |-> "If the email exists, a reset link has been sent"]

\* requestPasswordReset in store state us at time t, generateResetToken
\* returning token: [reply, users].
requestPasswordReset(us, email, token, t) ==
    LET found == findByEmail(us, email) IN
    IF found = Null
    THEN [reply |-> ResetRequestReply(found), users |-> us]
    ELSE [reply |-> ResetRequestReply(found),
          users |-> setResetToken(us, Val(email), token, t)]

RequestPasswordReset(email) ==
    /\ LET found == findByEmail(users, email)
           r == requestPasswordReset(users, email, nextTok, now)
       IN  /\ found # Null => nextTok <= MaxTokens
           /\ users' = r.users
           /\ nextTok' = IF found = Null THEN nextTok ELSE nextTok + 1
           /\ last' = [Call("requestPasswordReset", [type |-> "ok", message |-> <<r.reply.message>>])
                          EXCEPT !.uid = found, !.found = (found # Null),
                                 !.changed = (r.users # users)]
    /\ UNCHANGED <<ledger, proc, now, rotCount, consec, connections, sockets>>

----------------------------------------------------------------------------
(* AuthService.register and AuthService.verifyEmail *)

\* Ids the store gives to new rows.
NewUserIds == {"u3", "u4", "u5"}
FreshId(us) == CHOOSE id \in NewUserIds : id \notin DOMAIN us

\* The checks of register, in the order of the code: e-mail format,
\* username format, password strength, e-mail taken, username taken.
RegisterCheck(us, email, username, password) ==
    IF ~isValidEmail(email) THEN "email"
    ELSE IF ~isValidUsername(username) THEN "username"
    ELSE IF ~isStrongPassword(password) THEN "weak"
    ELSE IF emailExists(us, Val(email)) THEN "emailTaken"
    ELSE IF usernameExists(us, Val(username)) THEN "usernameTaken"
    ELSE "pass"

\* What register raises for each failed check.
RegisterError(check, password) ==
    CASE check = "email" -> ErrInvalidEmail
      [] check = "username" -> ErrInvalidUsername
      [] check = "weak" -> ErrWeakPassword(password)
      [] check = "emailTaken" -> ErrEmailTaken
      [] OTHER -> ErrUsernameTaken

\* register up to userRepository.create: the validation, the two lookups,
\* bcrypt.hash and generateVerificationToken.
RegisterStart(p, email, username, password) ==
    /\ proc[p].pc = "idle"
    /\ LET check == RegisterCheck(users, email, username, password) IN
       IF check = "pass"
       THEN /\ nextTok <= MaxTokens
            /\ Cardinality(DOMAIN users \ UserIds)
                 + Cardinality({q \in Procs : proc[q].pc = "create"}) < MaxNewUsers
            /\ proc' = [proc EXCEPT ![p] = [Idle EXCEPT !.pc = "create", !.email = email,
                                             !.username = username, !.pw = password,
                                             !.newTok = Some(nextTok)]]
            /\ nextTok' = nextTok + 1
            /\ UNCHANGED <<users, ledger, now, rotCount, consec, last, connections, sockets>>
       ELSE /\ last' = [Call("register", RegisterError(check, password))
                           EXCEPT !.pw = password,
                                  !.found = (check \in {"emailTaken", "usernameTaken"})]
            /\ UNCHANGED <<users, ledger, proc, now, nextTok, rotCount, consec, connections, sockets>>

\* userRepository.create, and the return.
RegisterCreate(p) ==
    /\ proc[p].pc = "create"
    /\ LET email == Val(proc[p].email)
           username == Val(proc[p].username)
       IN  IF CreateRejects(users, email, username)
           THEN /\ last' = [Call("register", ErrUniqueConstraint)
                               EXCEPT !.pw = proc[p].pw, !.found = TRUE]
                /\ UNCHANGED users
           ELSE /\ users' = UserCreate(users, FreshId(users), email, username,
                                       bcryptHash(proc[p].pw), Val(proc[p].newTok))
                /\ last' = [Call("register", Ok) EXCEPT !.uid = Some(FreshId(users)),
                               !.pw = proc[p].pw, !.changed = TRUE]
    /\ proc' = [proc EXCEPT ![p] = Idle]
    /\ UNCHANGED <<ledger, now, nextTok, rotCount, consec, connections, sockets>>

\* verifyEmail up to the update: the lookup of the token.
VerifyEmailStart(p, token) ==
    /\ proc[p].pc = "idle"
    /\ LET found == findByVerifyToken(users, token) IN
       IF found = Null
       THEN /\ last' = [Call("verifyEmail", ErrVerifyToken) EXCEPT !.tok = Presented(token),
                           !.absent = (token \in {Absent, JsNull})]
            /\ UNCHANGED <<users, ledger, proc, now, nextTok, rotCount, consec, connections, sockets>>
       ELSE /\ \E id \in verifyTokenMatches(users, token) :
                 proc' = [proc EXCEPT ![p] = [Idle EXCEPT !.pc = "verify", !.uid = id,
                                               !.tok = token]]
            /\ UNCHANGED <<users, ledger, now, nextTok, rotCount, consec, last, connections, sockets>>

\* userRepository.verifyEmail, the update, and the return.
VerifyEmailUpdate(p) ==
    /\ proc[p].pc = "verify"
    /\ users' = applyVerifyEmail(users, proc[p].uid)
    /\ last' = [Call("verifyEmail", Ok) EXCEPT !.uid = Some(proc[p].uid), !.found = TRUE,
                   !.changed = TRUE, !.tok = Presented(proc[p].tok),
                   !.absent = (proc[p].tok \in {Absent, JsNull})]
    /\ proc' = [proc EXCEPT ![p] = Idle]
    /\ UNCHANGED <<ledger, now, nextTok, rotCount, consec, connections, sockets>>

----------------------------------------------------------------------------
(* AuthService.resetPassword *)

\* The checks of resetPassword, in the order of the code: strength of the
\* new password, then the lookup of the token.
ResetPasswordCheck(us, token, newPassword, t) ==
    IF ~isStrongPassword(newPassword) THEN "weak"
    ELSE IF findByResetToken(us, token, t) = Null THEN "invalid"
    ELSE "pass"

\* resetPassword up to its first write.
ResetPasswordStart(p, token, newPassword) ==
    /\ proc[p].pc = "idle"
    /\ LET check == ResetPasswordCheck(users, token, newPassword, now)
       IN  IF check = "pass"
           THEN /\ \E id \in resetTokenMatches(users, token, now) :
                     proc' = [proc EXCEPT ![p] = [Idle EXCEPT !.pc = "rpUpdate", !.uid = id,
                                                   !.tok = token, !.pw = newPassword]]
                /\ UNCHANGED <<users, ledger, now, nextTok, rotCount, consec, last, connections, sockets>>
           ELSE /\ last' = [Call("resetPassword",
                                 IF check = "weak" THEN ErrWeakPassword(newPassword)
                                 ELSE ErrResetToken)
                               EXCEPT !.pw = newPassword,
                                      !.absent = (token \in {Absent, JsNull})]
                /\ UNCHANGED <<users, ledger, proc, now, nextTok, rotCount, consec, connections, sockets>>

\* userRepository.resetPassword, the update.
ResetPasswordUpdate(p) ==
    /\ proc[p].pc = "rpUpdate"
    /\ users' = applyResetPassword(users, proc[p].uid, bcryptHash(proc[p].pw))
    /\ proc' = [proc EXCEPT ![p].pc = "rpRevoke"]
    /\ UNCHANGED <<ledger, now, nextTok, rotCount, consec, last, connections, sockets>>

\* tokenRepository.revokeAllForUser(user.id), and the return.
ResetPasswordRevoke(p) ==
    /\ proc[p].pc = "rpRevoke"
    /\ LET lg == revokeAllForUser(ledger, proc[p].uid, now) IN
       /\ ledger' = lg
       /\ last' = [Call("resetPassword", Ok) EXCEPT !.uid = Some(proc[p].uid), !.found = TRUE,
                      !.changed = TRUE, !.pw = proc[p].pw,
                      !.absent = (proc[p].tok \in {Absent, JsNull}),
                      !.live = Cardinality(Unrevoked(lg, proc[p].uid))]
    /\ proc' = [proc EXCEPT ![p] = Idle]
    /\ UNCHANGED <<users, now, nextTok, rotCount, consec, connections, sockets>>

----------------------------------------------------------------------------
(* AuthService.changePassword *)

\* The checks of changePassword on the row findById returned, in the order
\* of the code: found, current password, strength of the new one.
ChangePasswordCheck(us, userId, currentPassword, newPassword) ==
    IF findById(us, userId) = Null THEN "missing"
    ELSE IF ~bcryptCompare(currentPassword, us[userId].passwordHash) THEN "mismatch"
    ELSE IF ~isStrongPassword(newPassword) THEN "weak"
    ELSE "pass"

\* What changePassword raises for each failed check.
ChangePasswordError(check, newPassword) ==
    CASE check = "missing" -> ErrNotFoundUser
      [] check = "mismatch" -> ErrCurrentPassword
      [] OTHER -> ErrWeakPassword(newPassword)

\* changePassword up to its first write.
ChangePasswordStart(p, userId, currentPassword, newPassword) ==
    /\ proc[p].pc = "idle"
    /\ LET check == ChangePasswordCheck(users, userId, currentPassword, newPassword) IN
       IF check = "pass"
       THEN /\ proc' = [proc EXCEPT ![p] = [Idle EXCEPT !.pc = "cpUpdate", !.uid = userId,
                                             !.pw = newPassword]]
            /\ UNCHANGED <<users, ledger, now, nextTok, rotCount, consec, last, connections, sockets>>
       ELSE /\ last' = [Call("changePassword", ChangePasswordError(check, newPassword))
                           EXCEPT !.uid = Some(userId), !.found = (check # "missing"),
                                  !.rightPw = (check = "weak"), !.pw = newPassword]
            /\ UNCHANGED <<users, ledger, proc, now, nextTok, rotCount, consec, connections, sockets>>

\* userRepository.update(userId, { passwordHash }).
ChangePasswordUpdate(p) ==
    /\ proc[p].pc = "cpUpdate"
    /\ users' = updatePasswordHash(users, proc[p].uid, bcryptHash(proc[p].pw))
    /\ proc' = [proc EXCEPT ![p].pc = "cpRevoke"]
    /\ UNCHANGED <<ledger, now, nextTok, rotCount, consec, last, connections, sockets>>

\* tokenRepository.revokeAllForUser(userId), and the return.
ChangePasswordRevoke(p) ==
    /\ proc[p].pc = "cpRevoke"
    /\ LET lg == revokeAllForUser(ledger, proc[p].uid, now) IN
       /\ ledger' = lg
       /\ last' = [Call("changePassword", Ok) EXCEPT !.uid = Some(proc[p].uid), !.found = TRUE,
                      !.rightPw = TRUE, !.changed = TRUE, !.pw = proc[p].pw,
                      !.live = Cardinality(Unrevoked(lg, proc[p].uid))]
    /\ proc' = [proc EXCEPT ![p] = Idle]
    /\ UNCHANGED <<users, now, nextTok, rotCount, consec, connections, sockets>>

----------------------------------------------------------------------------
(* WebSocketService: connect, disconnect, getOnlineUsers *)

Sockets == 1 .. NSockets

\* open: the socket's readyState is OPEN; pc: connect() has not run ("none"),
\* waits for findUnique ("lookup") or has returned ("done"); uid: the userId of
\* the token; accepted: connect() stored the socket; listening: connect()
\* registered the close handler.
NoSocket == [open |-> FALSE, pc |-> "none", uid |-> "", accepted |-> FALSE, listening |-> FALSE]

\* verifyAccessToken: the payload, or null.  A token is Null (bad signature,
\* expired) or Some(userId).
verifyAccessToken(accessToken) == accessToken

\* connect up to the await of findUnique.
WsConnect(s, accessToken) ==
    /\ sockets[s].pc = "none"
    /\ LET decoded == verifyAccessToken(accessToken) IN
       IF decoded = Null
       THEN sockets' = [sockets EXCEPT ![s] = [NoSocket EXCEPT !.pc = "done"]]
       ELSE sockets' = [sockets EXCEPT ![s] = [NoSocket EXCEPT !.open = TRUE, !.pc = "lookup",
                                                               !.uid = Val(decoded)]]
    /\ UNCHANGED <<users, ledger, proc, now, nextTok, rotCount, consec, last, connections>>

\* connect from the result of findUnique on: the status test,
\* connections.set(user.id, ...), and ws.on('close').  A handler registered on
\* a socket that has closed already is never called.
WsAccept(s) ==
    /\ sockets[s].pc = "lookup"
    /\ LET user == findById(users, sockets[s].uid) IN
       IF user = Null \/ users[sockets[s].uid].status # "ACTIVE"
       THEN /\ sockets' = [sockets EXCEPT ![s].open = FALSE, ![s].pc = "done"]
            /\ UNCHANGED connections
       ELSE /\ connections' = [id \in DOMAIN connections \cup {sockets[s].uid} |->
                                  IF id = sockets[s].uid THEN s ELSE connections[id]]
            /\ sockets' = [sockets EXCEPT ![s].pc = "done", ![s].accepted = TRUE,
                                          ![s].listening = sockets[s].open]
    /\ UNCHANGED <<users, ledger, proc, now, nextTok, rotCount, consec, last>>

\* disconnect(userId): connections.delete(userId) when it has the key.
disconnect(conns, userId) == [id \in DOMAIN conns \ {userId} |-> conns[id]]

\* The client closes its socket; the close handler, if registered, runs
\* disconnect(user.id).
WsClose(s) ==
    /\ sockets[s].open
    /\ sockets' = [sockets EXCEPT ![s].open = FALSE]
    /\ connections' = IF sockets[s].listening THEN disconnect(connections, sockets[s].uid)
                      ELSE connections
    /\ UNCHANGED <<users, ledger, proc, now, nextTok, rotCount, consec, last>>

\* getOnlineUsers: one entry per key of connections.
getOnlineUsers(conns) == DOMAIN conns

----------------------------------------------------------------------------
(* The clock *)

Tick ==
    /\ now + TickMinutes <= MaxClock
    /\ now' = now + TickMinutes
    /\ UNCHANGED <<users, ledger, proc, nextTok, rotCount, consec, last, connections, sockets>>

\* A long pause: every refresh token issued before it has expired after it.
LongPause == RefreshExpirationMinutes + TickMinutes

TickLong ==
    /\ now + LongPause <= RefreshExpirationMinutes + MaxClock
    /\ now' = now + LongPause
    /\ UNCHANGED <<users, ledger, proc, nextTok, rotCount, consec, last, connections, sockets>>

----------------------------------------------------------------------------
(* Initial state: two registered accounts, no session.                      *)

NewUser(addr, name, pw, role, status) ==
    [email |-> [addr |-> addr, caps |-> FALSE], username |-> [name |-> name, caps |-> FALSE],
     passwordHash |-> bcryptHash(pw),
     role |-> role, status |-> status, emailVerified |-> (status = "ACTIVE"),
     failedLogins |-> 0, lockedUntil |-> Null,
     verifyToken |-> Null, resetToken |-> Null, resetTokenExpiry |-> Null]

PasswordOf == [u1 |-> "Passw0rd1", u2 |-> "Passw0rd2"]
EmailOf == [u1 |-> "alice@x.com", u2 |-> "bob@x.com"]
UsernameOf == [u1 |-> "alice", u2 |-> "bob"]

\* alice is a USER whose e-mail is verified (ACTIVE) or not yet
\* (PENDING_VERIFICATION); bob is an ADMIN.
InitWith(aliceStatus) ==
    /\ users = [id \in UserIds |->
                  IF id = "u1" THEN NewUser(EmailOf.u1, UsernameOf.u1, PasswordOf.u1, "USER", aliceStatus)
                  ELSE NewUser(EmailOf.u2, UsernameOf.u2, PasswordOf.u2, "ADMIN", "ACTIVE")]
    /\ ledger = << >>
    /\ proc = [p \in Procs |-> Idle]
    /\ now = 0
    /\ nextTok = 1
    /\ rotCount = [t \in {hashToken(r) : r \in RawTokens} |-> 0]
    /\ consec = [id \in UserIds |-> 0]
    /\ last = NoCall
    /\ connections = << >>
    /\ sockets = [s \in Sockets |-> NoSocket]

Init == InitWith("ACTIVE")
InitAny == \E st \in {"PENDING_VERIFICATION", "ACTIVE"} : InitWith(st)

----------------------------------------------------------------------------
(* Specifications *)

PresentedTokens == {Null} \cup {Some(t) : t \in (1 .. (nextTok - 1)) \cup {ForgedToken}}
TypedEmails == {Null} \cup {Some(e) : e \in Emails}

\* Session operations: logins with the right password, refreshes, logouts,
\* logoutAll and the sweep.
SessionLogin(p) == \E id \in UserIds :
    LoginStart(p, Some([addr |-> EmailOf[id], caps |-> FALSE]), PasswordOf[id])
AliceLogin(p) == \E caps \in BOOLEAN :
    LoginStart(p, Some([addr |-> EmailOf.u1, caps |-> caps]), PasswordOf.u1)
SessionRefresh(p) == \E t \in PresentedTokens : RefreshStart(p, t)
SessionLogout == \E t \in PresentedTokens : Logout(t)
SessionLogoutAll == \E id \in UserIds : LogoutAll(id)
Suspend == \E id, actor \in UserIds : SuspendUser(id, actor)
Ban == \E id, actor \in UserIds : BanUser(id, actor)
Activate == \E id, actor \in UserIds : ActivateUser(id, actor)

\* Sessions of both accounts, one call at a time (one request slot; the
\* single-statement operations and the clock move only between calls).
QuietLogout == Quiet /\ SessionLogout
QuietLogoutAll == Quiet /\ SessionLogoutAll
QuietDeleteExpired == Quiet /\ DeleteExpired
QuietTickLong == Quiet /\ TickLong

Next ==
    \/ SessionLogin(1)
    \/ LoginCreateToken(1)
    \/ LoginUpdateInfo(1)
    \/ SessionRefresh(1)
    \/ RefreshReuse(1)
    \/ RefreshRevoke(1)
    \/ RefreshCreate(1)
    \/ QuietLogout
    \/ QuietLogoutAll
    \/ QuietDeleteExpired
    \/ QuietTickLong

Spec == Init /\ [][Next]_vars

\* Sessions of one account (alice) in NProcs concurrent request slots: the
\* statements of the calls interleave in any order.
RaceNext ==
    \/ \E p \in Procs : AliceLogin(p)
    \/ \E p \in Procs : LoginCreateToken(p)
    \/ \E p \in Procs : LoginUpdateInfo(p)
    \/ \E p \in Procs : SessionRefresh(p)
    \/ \E p \in Procs : RefreshReuse(p)
    \/ \E p \in Procs : RefreshRevoke(p)
    \/ \E p \in Procs : RefreshCreate(p)
    \/ SessionLogout
    \/ SessionLogoutAll
    \/ DeleteExpired
    \/ QuietTickLong

RaceSpec == Init /\ [][RaceNext]_vars

\* Logins and refreshes racing with the moderation routes.
StatusNext ==
    \/ \E p \in Procs : AliceLogin(p)
    \/ \E p \in Procs : LoginCreateToken(p)
    \/ \E p \in Procs : LoginUpdateInfo(p)
    \/ \E p \in Procs : SessionRefresh(p)
    \/ \E p \in Procs : RefreshReuse(p)
    \/ \E p \in Procs : RefreshRevoke(p)
    \/ \E p \in Procs : RefreshCreate(p)
    \/ Suspend
    \/ Ban
    \/ Activate

StatusSpec == InitAny /\ [][StatusNext]_vars

\* Logins one at a time (one request slot; the clock and the moderation
\* routes move only between calls), with any e-mail and password.
\* E-mails typed at login: none, alice's or an unregistered one, in either case.
LoginEmails == {Null} \cup {Some(e) : e \in {x \in Emails : x.addr # EmailOf.u2}}
AnyLogin == \E e \in LoginEmails, pw \in Passwords : LoginStart(1, e, pw)
QuietTick == Quiet /\ Tick
QuietSuspend == Quiet /\ Suspend
QuietBan == Quiet /\ Ban
QuietActivate == Quiet /\ Activate

LoginNext ==
    \/ AnyLogin
    \/ LoginIncrement(1)
    \/ LoginLock(1)
    \/ LoginCreateToken(1)
    \/ LoginUpdateInfo(1)
    \/ QuietTick
    \/ QuietSuspend
    \/ QuietBan
    \/ QuietActivate

LoginSpec == InitAny /\ [][LoginNext]_vars

\* Wrong-password logins for one account in NProcs concurrent slots.
WrongLogin(p) == LoginStart(p, Some([addr |-> EmailOf.u1, caps |-> FALSE]), "wrong")

LoginRaceNext ==
    \/ \E p \in Procs : WrongLogin(p)
    \/ \E p \in Procs : LoginIncrement(p)
    \/ \E p \in Procs : LoginLock(p)
    \/ Tick

LoginRaceSpec == Init /\ [][LoginRaceNext]_vars

\* Password-reset requests for any e-mail, and the clock.
AnyResetRequest == \E e \in TypedEmails : RequestPasswordReset(e)

ResetNext ==
    \/ AnyResetRequest
    \/ Tick

ResetSpec == Init /\ [][ResetNext]_vars

\* changePassword for one account (alice) between logins with the current, a
\* former or a wrong password, one call at a time.
NewPasswords == {"Passw0rd2", "short1a", "lettersonly", "12345678", "", "Aa1*43"}
PasswordLogin == \E pw \in Passwords :
    LoginStart(1, Some([addr |-> EmailOf.u1, caps |-> FALSE]), pw)
AnyChangePassword == \E cur \in {"Passw0rd1", "wrong"}, new \in NewPasswords :
    ChangePasswordStart(1, "u1", cur, new)

ChangePasswordNext ==
    \/ PasswordLogin
    \/ LoginIncrement(1)
    \/ LoginLock(1)
    \/ LoginCreateToken(1)
    \/ LoginUpdateInfo(1)
    \/ AnyChangePassword
    \/ ChangePasswordUpdate(1)
    \/ ChangePasswordRevoke(1)

ChangePasswordSpec == Init /\ [][ChangePasswordNext]_vars

\* Password resets for one account (alice): reset requests, resetPassword
\* with any token and any new password, logins, and the clock, one call at a
\* time.
ResetTokens == (1 .. (nextTok - 1)) \cup {ForgedToken}
ResetNewPasswords == {"Passw0rd2", "short1a"}
AliceResetRequest == Quiet /\ RequestPasswordReset(Some([addr |-> EmailOf.u1, caps |-> FALSE]))
AnyResetPassword == \E t \in ResetTokens, new \in ResetNewPasswords :
    ResetPasswordStart(1, Given(t), new)

ResetPasswordNext ==
    \/ PasswordLogin
    \/ LoginIncrement(1)
    \/ LoginLock(1)
    \/ LoginCreateToken(1)
    \/ LoginUpdateInfo(1)
    \/ AliceResetRequest
    \/ AnyResetPassword
    \/ ResetPasswordUpdate(1)
    \/ ResetPasswordRevoke(1)
    \/ QuietTick

ResetPasswordSpec == Init /\ [][ResetPasswordNext]_vars

\* Registrations in NProcs concurrent slots, with taken, free and ill-formed
\* e-mails and usernames in either case, and verifications of the e-mail
\* with any token.
RegisterEmails ==
    {Null, Some([addr |-> "alice@x.com", caps |-> TRUE]), Some([addr |-> "ghost.x.com", caps |-> FALSE]),
     Some([addr |-> "ghost@x.com", caps |-> FALSE]), Some([addr |-> "ghost@x.com", caps |-> TRUE]),
     Some([addr |-> "carol@x.com", caps |-> FALSE])}
RegisterUsernames ==
    {Null, Some([name |-> "alice", caps |-> TRUE]), Some([name |-> "g2", caps |-> FALSE]),
     Some([name |-> "ghost", caps |-> FALSE]), Some([name |-> "ghost", caps |-> TRUE]),
     Some([name |-> "carol", caps |-> FALSE])}
VerifyTokens == (1 .. (nextTok - 1)) \cup {ForgedToken}
AnyRegister(p) == \E e \in RegisterEmails, u \in RegisterUsernames, pw \in {"Passw0rd1", "short1a"} :
    RegisterStart(p, e, u, pw)
AnyVerifyEmail(p) == \E t \in VerifyTokens : VerifyEmailStart(p, Given(t))

RegisterNext ==
    \/ \E p \in Procs : AnyRegister(p)
    \/ \E p \in Procs : RegisterCreate(p)
    \/ \E p \in Procs : AnyVerifyEmail(p)
    \/ \E p \in Procs : VerifyEmailUpdate(p)

RegisterSpec == Init /\ [][RegisterNext]_vars

\* Registrations and verifications of the e-mail, one call at a time.
VerifyNext ==
    \/ AnyRegister(1)
    \/ RegisterCreate(1)
    \/ AnyVerifyEmail(1)
    \/ VerifyEmailUpdate(1)

VerifySpec == Init /\ [][VerifyNext]_vars

\* The user routes called by any account on any account, and the
\* registration of a third account.
GhostRegister ==
    RegisterStart(1, Some([addr |-> "ghost@x.com", caps |-> FALSE]),
                  Some([name |-> "ghost", caps |-> FALSE]), "Passw0rd1")
ModerationTargets == DOMAIN users \cup NewUserIds
AnyChangeRole ==
    \E id \in ModerationTargets, actor \in DOMAIN users, role \in Roles : ChangeRole(id, role, actor)
AnySuspend == \E id \in ModerationTargets, actor \in DOMAIN users : SuspendUser(id, actor)
AnyBan == \E id \in ModerationTargets, actor \in DOMAIN users : BanUser(id, actor)
AnyActivate == \E id \in ModerationTargets, actor \in DOMAIN users : ActivateUser(id, actor)

ModerationNext ==
    \/ GhostRegister
    \/ RegisterCreate(1)
    \/ AnyChangeRole
    \/ AnySuspend
    \/ AnyBan
    \/ AnyActivate

ModerationSpec == Init /\ [][ModerationNext]_vars

\* changeRole, suspendUser, banUser and deleteUser called by any account on
\* any account, and the registration of a third account.
AdminNext ==
    \/ GhostRegister
    \/ RegisterCreate(1)
    \/ AnyChangeRole
    \/ AnySuspend
    \/ AnyBan
    \/ \E id \in ModerationTargets, actor \in DOMAIN users : DeleteUser(id, actor)

AdminSpec == Init /\ [][AdminNext]_vars

\* The guards as preHandlers: built with any name, run on any request.
RoleNames == Roles \cup {"GUEST", "constructor", "__proto__", "hasOwnProperty"}
PermissionNames ==
    {"user:suspend", "user:ban", "topic:create", "admin:access",
     "user:unsuspend", "constructor", "toString"}
Requests == {Null} \cup {Some([role |-> r]) : r \in RoleNames}

RequireMinimumRole(request, minimumRole) ==
    /\ last' = [Call("requireMinimumRole", requireMinimumRole(request, minimumRole))
                  EXCEPT !.request = request, !.name = minimumRole]
    /\ UNCHANGED <<users, ledger, proc, now, nextTok, rotCount, consec, connections, sockets>>

RequirePermission(request, permission) ==
    /\ last' = [Call("requirePermission", requirePermissionGuard(request, permission))
                  EXCEPT !.request = request, !.name = permission]
    /\ UNCHANGED <<users, ledger, proc, now, nextTok, rotCount, consec, connections, sockets>>

GuardNext ==
    \/ \E request \in Requests, minimumRole \in RoleNames :
          RequireMinimumRole(request, minimumRole)
    \/ \E request \in Requests, permission \in PermissionNames :
          RequirePermission(request, permission)

GuardSpec == Init /\ [][GuardNext]_vars

\* Sessions of both accounts, one call at a time, with the clock and the
\* moderation routes moving between calls.
RefreshFailNext ==
    \/ SessionLogin(1)
    \/ LoginCreateToken(1)
    \/ LoginUpdateInfo(1)
    \/ SessionRefresh(1)
    \/ RefreshReuse(1)
    \/ RefreshRevoke(1)
    \/ RefreshCreate(1)
    \/ QuietTickLong
    \/ QuietSuspend
    \/ QuietBan
    \/ QuietActivate

RefreshFailSpec == Init /\ [][RefreshFailNext]_vars

\* Every caller of revokeAllForUser, for both accounts, one call at a time:
\* logoutAll, the reuse branch of refresh, changePassword and resetPassword.
CurrentLogin == \E id \in UserIds, pw \in Passwords :
    /\ bcryptCompare(pw, users[id].passwordHash)
    /\ LoginStart(1, Some([addr |-> EmailOf[id], caps |-> FALSE]), pw)
OwnChangePassword == \E id \in UserIds, pw \in Passwords :
    /\ bcryptCompare(pw, users[id].passwordHash)
    /\ ChangePasswordStart(1, id, pw, "Passw0rd2")
IssuedResetPassword == \E t \in 1 .. (nextTok - 1) : ResetPasswordStart(1, Given(t), "Passw0rd2")

RevokeAllNext ==
    \/ CurrentLogin
    \/ LoginCreateToken(1)
    \/ LoginUpdateInfo(1)
    \/ SessionRefresh(1)
    \/ RefreshReuse(1)
    \/ RefreshRevoke(1)
    \/ RefreshCreate(1)
    \/ QuietLogoutAll
    \/ OwnChangePassword
    \/ ChangePasswordUpdate(1)
    \/ ChangePasswordRevoke(1)
    \/ AliceResetRequest
    \/ IssuedResetPassword
    \/ ResetPasswordUpdate(1)
    \/ ResetPasswordRevoke(1)
    \/ QuietTickLong

RevokeAllSpec == Init /\ [][RevokeAllNext]_vars

\* A registration, the moderation routes and verifyEmail, one call at a time.
VerifyModerationNext ==
    \/ GhostRegister
    \/ RegisterCreate(1)
    \/ Quiet /\ AnySuspend
    \/ Quiet /\ AnyBan
    \/ Quiet /\ AnyActivate
    \/ AnyVerifyEmail(1)
    \/ VerifyEmailUpdate(1)

VerifyModerationSpec == Init /\ [][VerifyModerationNext]_vars

\* verifyEmail and resetPassword with the token field absent, null or
\* holding an issued or a forged token, one call at a time, for accounts with
\* a pending verification, a pending reset request or a suspension.
BodyTokens == {Absent, JsNull} \cup {Given(t) : t \in (1 .. (nextTok - 1)) \cup {ForgedToken}}
BodyVerifyEmail == \E f \in BodyTokens : VerifyEmailStart(1, f)
BodyResetPassword == \E f \in BodyTokens : ResetPasswordStart(1, f, "Passw0rd2")

AbsentTokenNext ==
    \/ GhostRegister
    \/ RegisterCreate(1)
    \/ AliceResetRequest
    \/ Quiet /\ AnySuspend
    \/ BodyVerifyEmail
    \/ VerifyEmailUpdate(1)
    \/ BodyResetPassword
    \/ ResetPasswordUpdate(1)
    \/ ResetPasswordRevoke(1)

AbsentTokenSpec == Init /\ [][AbsentTokenNext]_vars

\* Logins with the right and with a wrong password for one account (alice)
\* in NProcs concurrent request slots.
MixedLogin(p) == \E pw \in {PasswordOf.u1, "wrong"} :
    LoginStart(p, Some([addr |-> EmailOf.u1, caps |-> FALSE]), pw)

LoginMixNext ==
    \/ \E p \in Procs : MixedLogin(p)
    \/ \E p \in Procs : LoginIncrement(p)
    \/ \E p \in Procs : LoginLock(p)
    \/ \E p \in Procs : LoginCreateToken(p)
    \/ \E p \in Procs : LoginUpdateInfo(p)
    \/ Tick

LoginMixSpec == Init /\ [][LoginMixNext]_vars

\* WebSocket clients connecting with the access token of alice, of bob, of
\* an account that is gone, or with a bad token, and closing at any time.
AccessTokens == {Null} \cup {Some(id) : id \in UserIds \cup {"u3"}}

PresenceNext ==
    \/ \E s \in Sockets, t \in AccessTokens : WsConnect(s, t)
    \/ \E s \in Sockets : WsAccept(s)
    \/ \E s \in Sockets : WsClose(s)

PresenceSpec == Init /\ [][PresenceNext]_vars

\* Weak and strong new passwords given to register, changePassword and
\* resetPassword, one call at a time, for an account with a session and a
\* pending reset request.
WeakLogin == LoginStart(1, Some([addr |-> EmailOf.u1, caps |-> FALSE]), PasswordOf.u1)
WeakRegister == \E new \in NewPasswords :
    RegisterStart(1, Some([addr |-> "ghost@x.com", caps |-> FALSE]),
                  Some([name |-> "ghost", caps |-> FALSE]), new)
WeakChangePassword == \E cur \in {PasswordOf.u1, "wrong"}, new \in NewPasswords :
    ChangePasswordStart(1, "u1", cur, new)
WeakResetPassword == \E t \in ResetTokens, new \in NewPasswords :
    ResetPasswordStart(1, Given(t), new)

WeakPasswordNext ==
    \/ WeakLogin
    \/ LoginCreateToken(1)
    \/ LoginUpdateInfo(1)
    \/ AliceResetRequest
    \/ WeakRegister
    \/ RegisterCreate(1)
    \/ WeakChangePassword
    \/ ChangePasswordUpdate(1)
    \/ ChangePasswordRevoke(1)
    \/ WeakResetPassword
    \/ ResetPasswordUpdate(1)
    \/ ResetPasswordRevoke(1)

WeakPasswordSpec == Init /\ [][WeakPasswordNext]_vars

----------------------------------------------------------------------------
(* Properties *)

\* C1 (RaceSpec): of the refresh calls that present one token, at most one
\* returns a new access/refresh pair, however their statements interleave.
C1_AtMostOneRotation == \A h \in DOMAIN rotCount : rotCount[h] <= 1

\* C2 (Spec): a refresh presenting a token that an earlier, completed refresh
\* rotated fails with 'Token has been revoked' and leaves its user without an
\* unrevoked token, whatever ran in between.
C2_ReplayAlwaysDetected ==
    (last.op = "refresh" /\ last.late) => (last.res = ErrTokenRevoked /\ last.live = 0)

\* C3 (Spec): a refresh presenting a token that an earlier, completed refresh
\* rotated never returns a token pair.
C3_RotatedTokenNeverSucceeds ==
    (last.op = "refresh" /\ last.res = Ok) => ~last.late

\* C3 witness: a token was rotated, its successor was rotated in turn (the
\* new raw token does succeed), and a replay of a rotated token was refused.
C3_ReplayRefused ==
    /\ last.op = "refresh" /\ last.late /\ last.res = ErrTokenRevoked
    /\ \E h \in DOMAIN ledger :
          /\ rotCount[h] = 1
          /\ ledger[h].replacedBy # Null
          /\ rotCount[Val(ledger[h].replacedBy)] = 1

\* C4 (StatusSpec): login and refresh insert a refresh-token row (and return
\* the pair) only for a user whose stored status is then neither BANNED nor
\* SUSPENDED.
C4_NoTokensForBlockedUser ==
    (last.op \in {"login", "refresh"} /\ last.res = Ok)
        => last.issuedStatus \notin {Some("BANNED"), Some("SUSPENDED")}

\* C5 (Spec): no step takes a ledger row from revoked back to unrevoked.
C5_RevokedIsTerminal ==
    [][\A h \in DOMAIN ledger :
          (ledger[h].revokedAt # Null /\ h \in DOMAIN ledger')
              => ledger'[h].revokedAt # Null]_vars

\* C5 witness: logout was called on a row that was already revoked.
C5_RevokedTwice == last.op = "logout" /\ last.wasRevoked

\* C6 (Spec): logout never raises, whatever token it is given.
C6_LogoutNeverRaises == last.op = "logout" => last.res = Ok

\* C7 (LoginSpec): with wrong-password logins counted since the last
\* successful login, fewer than 5 leave the account unlocked, the call that
\* makes it 5 (or more) leaves lockedUntil 30 minutes ahead, and a login that
\* finds lockedUntil in the future is refused as locked without comparing the
\* password, changing failedLogins or issuing a token.
C7_Lockout ==
    /\ \A id \in UserIds : consec[id] < LockThreshold => users[id].lockedUntil = Null
    /\ (last.op = "login" /\ last.found /\ last.compared /\ last.res = ErrInvalidCredentials
          /\ consec[Val(last.uid)] >= LockThreshold)
         => last.lockedFor = Some(LockMinutes)
    /\ (last.op = "login" /\ last.lockedAtStart)
         => /\ last.res = ErrLocked(Val(last.lockedFor))
            /\ Val(last.lockedFor) > 0
            /\ ~last.compared
            /\ last.failedDelta = 0
            /\ ~last.changed
            /\ last.issuedStatus = Null

\* C7 witness: a login with the right password was refused because the
\* account was locked.
C7_RightPasswordRefused ==
    last.op = "login" /\ last.lockedAtStart /\ last.rightPw /\ consec.u1 = LockThreshold

\* C8 (LoginRaceSpec): every wrong-password login that got past the lock test
\* is counted exactly once, and once all have returned an account with 5 or
\* more is locked.
C8_NoLostFailedLogins ==
    /\ users.u1.failedLogins
         = consec.u1 + Cardinality({p \in Procs : proc[p].pc = "lock" /\ proc[p].uid = "u1"})
    /\ (Quiet /\ users.u1.failedLogins >= LockThreshold) => users.u1.lockedUntil # Null

\* C8 witness: two logins read the same failedLogins, both have incremented
\* it, and the value is two higher than the one they read.
C8_ConcurrentBothCounted ==
    \E p, q \in Procs :
        /\ p # q
        /\ proc[p].pc = "lock" /\ proc[q].pc = "lock"
        /\ proc[p].seen = proc[q].seen
        /\ users.u1.failedLogins = proc[p].seen + 2

\* C9 as claimed (LoginSpec): for a wrong password, login answers for an
\* existing account, in whatever state, exactly as for an unknown e-mail.
WrongFor(id) == {pw \in Passwords : ~bcryptCompare(pw, users[id].passwordHash)}
Typed(addr) == {Some([addr |-> addr, caps |-> c]) : c \in BOOLEAN}

C9_SameErrorAsNoAccount ==
    \A id \in UserIds : \A pw \in WrongFor(id) :
        \A e \in Typed(EmailOf[id]), ghost \in Typed("ghost@x.com") \cup {Null} :
            LoginOutcome(users, now, e, pw) = LoginOutcome(users, now, ghost, pw)

\* C9 amended (LoginSpec): the same, for an account that is not locked at the
\* time of the call.
C9_SameErrorUnlessLocked ==
    \A id \in UserIds : \A pw \in WrongFor(id) :
        \A e \in Typed(EmailOf[id]), ghost \in Typed("ghost@x.com") \cup {Null} :
            ~isLocked(users[id], now)
                => LoginOutcome(users, now, e, pw) = LoginOutcome(users, now, ghost, pw)

\* C9 witness: a wrong-password login for a banned account, with failed
\* logins on record, ended with the generic error.
C9_BannedWrongPassword ==
    /\ last.op = "login" /\ last.found /\ ~last.rightPw
    /\ last.res = ErrInvalidCredentials
    /\ users.u1.status = "BANNED"
    /\ users.u1.failedLogins >= 2

\* C10 (ResetSpec): requestPasswordReset returns the same result for every
\* e-mail, and for an e-mail without an account it leaves the store as it was.
C10_ResetRequestUniform ==
    /\ \A e1, e2 \in TypedEmails :
          requestPasswordReset(users, e1, nextTok, now).reply
            = requestPasswordReset(users, e2, nextTok, now).reply
    /\ \A e \in TypedEmails :
          findByEmail(users, e) = Null => requestPasswordReset(users, e, nextTok, now).users = users
    /\ last.op = "requestPasswordReset"
         => /\ last.res.message = <<"If the email exists, a reset link has been sent">>
            /\ ~last.found => ~last.changed

\* C10 witness: a request for an unknown e-mail returned after a request for
\* a known one had stored a reset token.
C10_UnknownEmailRequested ==
    /\ last.op = "requestPasswordReset" /\ ~last.found
    /\ \E id \in UserIds : users[id].resetToken # Null

\* C11 (ChangePasswordSpec): changePassword with a wrong current password
\* raises 'Current password is incorrect' and writes neither table; when it
\* returns normally the stored hash is that of the new password and the
\* account has no unrevoked refresh token.
C11_ChangePassword ==
    /\ [](/\ (last.op = "changePassword" /\ last.found /\ ~last.rightPw)
              => (last.res = ErrCurrentPassword /\ ~last.changed)
          /\ (Quiet /\ last.op = "changePassword" /\ last.res = Ok)
              => /\ last.rightPw
                 /\ users[Val(last.uid)].passwordHash = bcryptHash(last.pw)
                 /\ Unrevoked(ledger, Val(last.uid)) = {}
                 /\ last.live = 0)
    /\ [][(last' # last /\ last'.op = "changePassword" /\ last'.res = ErrCurrentPassword)
            => (users' = users /\ ledger' = ledger)]_vars

\* C11 witness: changePassword returned normally for an account that had
\* two sessions, and its hash is no longer the one it registered with.
C11_SessionsClosed ==
    /\ Quiet /\ last.op = "changePassword" /\ last.res = Ok
    /\ Cardinality({h \in DOMAIN ledger : ledger[h].userId = "u1"}) >= 2
    /\ users.u1.passwordHash # bcryptHash(PasswordOf.u1)

\* The weak passwords of the contract: shorter than 8 characters, or without
\* a digit, or without a letter.
WeakPasswords ==
    {pw \in DOMAIN PasswordShape :
        \/ PasswordShape[pw].length < 8
        \/ ~PasswordShape[pw].hasNumber
        \/ ~PasswordShape[pw].hasLetter}

\* C12 as claimed (WeakPasswordSpec): register, resetPassword and
\* changePassword given a weak new password raise a ValidationError and write
\* neither table.
C12_WeakAlwaysValidationError ==
    /\ [](((last.op \in {"register", "resetPassword", "changePassword"})
             /\ last.pw \in WeakPasswords)
            => (last.res.type = "ValidationError" /\ ~last.changed))
    /\ [][(/\ last' # last
           /\ last'.op \in {"register", "resetPassword", "changePassword"}
           /\ last'.pw \in WeakPasswords)
            => (users' = users /\ ledger' = ledger)]_vars

\* C12 amended (WeakPasswordSpec): the same, except that changePassword
\* tests the current password first and raises 'Current password is
\* incorrect' when it is wrong, whatever the new password.
C12_WeakRejectedUnchanged ==
    /\ [](((last.op \in {"register", "resetPassword", "changePassword"})
             /\ last.pw \in WeakPasswords)
            => /\ ~last.changed
               /\ last.res = IF last.op = "changePassword" /\ ~last.rightPw
                              THEN ErrCurrentPassword
                              ELSE ErrWeakPassword(last.pw))
    /\ [][(/\ last' # last
           /\ last'.op \in {"register", "resetPassword", "changePassword"}
           /\ last'.pw \in WeakPasswords)
            => (users' = users /\ ledger' = ledger)]_vars

\* C12 witness: resetPassword refused a weak password while the account had
\* a pending reset token and an open session, and both are still there.
C12_WeakResetRefused ==
    /\ last.op = "resetPassword" /\ last.res = ErrWeakPassword("12345678")
    /\ users.u1.resetToken # Null
    /\ Unrevoked(ledger, "u1") # {}
    /\ users.u1.passwordHash = bcryptHash(PasswordOf.u1)

\* C13 (RegisterSpec): no two accounts share a stored e-mail or a stored
\* username, both are stored in lower case, and a register call that is
\* refused because its e-mail or username is taken raises a ConflictError
\* and creates nothing, however the calls interleave.
C13_RegisterConflict ==
    /\ \A i, j \in DOMAIN users :
          i # j => (users[i].email # users[j].email /\ users[i].username # users[j].username)
    /\ \A i \in DOMAIN users :
          users[i].email = toLowerCase(users[i].email)
            /\ users[i].username = toLowerCase(users[i].username)
    /\ (last.op = "register" /\ last.found)
          => (last.res.type = "ConflictError" /\ ~last.changed)

\* C14 (ResetPasswordSpec): a reset request stores a token that expires one
\* hour later; resetPassword goes through only for the one token stored and
\* unexpired; when it returns normally the hash is that of the new password,
\* the reset token is cleared, failedLogins is 0, lockedUntil is null, the
\* account has no unrevoked refresh token and no token issued so far resets
\* a password any more; a refused resetPassword writes nothing.
C14_ResetSingleUse ==
    /\ [](/\ \A t1, t2 \in 1 .. ForgedToken :
                (/\ ResetPasswordCheck(users, Given(t1), "Passw0rd2", now) = "pass"
                 /\ ResetPasswordCheck(users, Given(t2), "Passw0rd2", now) = "pass") => t1 = t2
          /\ \A t \in 1 .. ForgedToken :
                ResetPasswordCheck(users, Given(t), "Passw0rd2", now) = "pass"
                  => \E id \in DOMAIN users :
                        /\ users[id].resetToken = Some(t)
                        /\ now - (Val(users[id].resetTokenExpiry) - ResetTokenMinutes)
                             < ResetTokenMinutes
          /\ (Quiet /\ last.op = "resetPassword" /\ last.res = Ok)
                => /\ users[Val(last.uid)].passwordHash = bcryptHash(last.pw)
                   /\ users[Val(last.uid)].resetToken = Null
                   /\ users[Val(last.uid)].resetTokenExpiry = Null
                   /\ users[Val(last.uid)].failedLogins = 0
                   /\ users[Val(last.uid)].lockedUntil = Null
                   /\ Unrevoked(ledger, Val(last.uid)) = {}
                   /\ \A t \in 1 .. ForgedToken :
                         ResetPasswordCheck(users, Given(t), "Passw0rd2", now) = "invalid"
          /\ (last.op = "resetPassword" /\ last.res # Ok)
                => (last.res \in {ErrResetToken, ErrWeakPassword(last.pw)} /\ ~last.changed))
    /\ [][/\ (last' # last /\ last'.op = "resetPassword" /\ last'.res # Ok)
              => (users' = users /\ ledger' = ledger)
          /\ (last'.op = "requestPasswordReset" /\ last'.found /\ nextTok' # nextTok
                 /\ proc' = proc)
              => /\ users'[Val(last'.uid)].resetToken = Some(nextTok)
                 /\ users'[Val(last'.uid)].resetTokenExpiry = Some(now + ResetTokenMinutes)]_vars

\* C14 witness: resetPassword returned normally for an account that had an
\* open session and had been locked by five wrong passwords.
C14_ResetUnlocksAndLogsOut ==
    /\ Quiet /\ last.op = "resetPassword" /\ last.res = Ok
    /\ consec.u1 >= LockThreshold
    /\ \E h \in DOMAIN ledger : ledger[h].userId = "u1" /\ ledger[h].revokedAt # Null

\* C15 (VerifySpec): a verifyEmail call that returns normally presented the
\* verification token stored on one account, and leaves that account with
\* emailVerified true, verifyToken null and status ACTIVE, and every other
\* column and account as it was; a call that raises presented a token no
\* account stores, raises 'Invalid or expired verification token' and
\* changes no account; no call has another outcome.
C15_VerifyEmail ==
    [][(last' # last /\ last'.op = "verifyEmail")
         => IF \E id \in DOMAIN users : users[id].verifyToken = last'.tok
            THEN /\ last'.res = Ok
                 /\ LET id == Val(last'.uid) IN
                    /\ users[id].verifyToken = last'.tok
                    /\ users' = [users EXCEPT ![id].emailVerified = TRUE,
                                              ![id].verifyToken = Null,
                                              ![id].status = "ACTIVE"]
            ELSE /\ last'.res = ErrVerifyToken
                 /\ users' = users]_vars

\* C15 witness: the only verification token issued so far was consumed by
\* a verifyEmail, and a second verifyEmail with it was refused.
C15_ConsumedTokenRefused ==
    /\ last.op = "verifyEmail" /\ last.res = ErrVerifyToken /\ last.tok = Some(1)
    /\ nextTok = 2
    /\ \E id \in DOMAIN users \ UserIds :
          users[id].emailVerified /\ users[id].status = "ACTIVE" /\ users[id].verifyToken = Null

\* The order of the roles in the contract: USER < MODERATOR < ADMIN.
RoleOrder == <<"USER", "MODERATOR", "ADMIN">>
Rank(role) == CHOOSE i \in DOMAIN RoleOrder : RoleOrder[i] = role
Blocked == {"SUSPENDED", "BANNED"}

\* C16 (ModerationSpec): every step that changes an account's role, or
\* changes its status to or from SUSPENDED or BANNED, is a call of a user
\* route by a caller other than that account whose role is strictly higher
\* than the role the account had.
C16_OnlyHigherRoleMutates ==
    [][\A id \in DOMAIN users :
          (\/ users'[id].role # users[id].role
           \/ /\ users'[id].status # users[id].status
              /\ (users[id].status \in Blocked \/ users'[id].status \in Blocked))
            => /\ last'.op \in {"changeRole", "suspendUser", "banUser", "activateUser"}
               /\ last'.uid = Some(id)
               /\ Val(last'.actor) # id
               /\ Rank(users[Val(last'.actor)].role) > Rank(users[id].role)]_vars

\* C17 (ModerationSpec): a suspendUser or changeRole call succeeds only when
\* the actor's role is strictly above the target's; a call by an actor of
\* equal or lower role on an existing account fails with AuthorizationError
\* and leaves every account as it was; and isHigherRole is irreflexive and
\* transitive over the roles.
C17_HigherRoleOnly ==
    /\ [](/\ \A r \in Roles : ~isHigherRole(r, r)
          /\ \A a, b, c \in Roles :
                isHigherRole(a, b) /\ isHigherRole(b, c) => isHigherRole(a, c))
    /\ [][(last' # last /\ last'.op \in {"suspendUser", "changeRole"})
            => LET a == Val(last'.actor)
                   t == Val(last'.uid)
               IN  /\ last'.res = Ok
                        => t \in DOMAIN users /\ Rank(users[a].role) > Rank(users[t].role)
                   /\ (t \in DOMAIN users /\ Rank(users[a].role) <= Rank(users[t].role))
                        => last'.res.type = "AuthorizationError" /\ users' = users]_vars

\* A moderator asked to suspend another moderator and was refused for its role.
C17_EqualRoleRefused ==
    /\ last.op = "suspendUser"
    /\ last.res = ErrRole
    /\ Val(last.actor) # Val(last.uid)
    /\ users[Val(last.actor)].role = "MODERATOR"
    /\ users[Val(last.uid)].role = "MODERATOR"

\* C18 (GuardSpec): requireMinimumRole(r) passes exactly when the caller's
\* role and r are both among the three roles and the caller's position in
\* USER < MODERATOR < ADMIN is at or above that of r; in every other case,
\* also with no user attached or with a role name that is none of the three,
\* it fails with AuthorizationError.
C18_MinimumRole ==
    last.op = "requireMinimumRole"
        => LET passes == /\ last.request # Null
                         /\ Val(last.request).role \in Roles
                         /\ last.name \in Roles
                         /\ Rank(Val(last.request).role) >= Rank(last.name)
           IN  /\ passes <=> last.res = Ok
               /\ ~passes => last.res.type = "AuthorizationError"

\* C19 (GuardSpec): requirePermission(name) on a request with a user fails
\* with AuthorizationError 'Invalid permission' for every name that is not
\* in the permission table, whatever the caller's role, and for a name in
\* the table passes exactly when the caller's role is in that name's set.
C19_UnknownPermission ==
    (last.op = "requirePermission" /\ last.request # Null)
        => IF last.name \in DOMAIN PERMISSIONS
           THEN last.res = Ok <=> Val(last.request).role \in PERMISSIONS[last.name]
           ELSE last.res = ErrInvalidPermission

\* What login answers to the right password, by status.
StatusError(status) == IF status = "BANNED" THEN ErrBanned ELSE ErrSuspended

\* What C20 asks of a login that returned for a banned or suspended account:
\* a wrong password gets the generic error and one more failed login, the
\* right password gets the error naming the status, and then no token is
\* issued, no refresh-token row is written and no column of the account is
\* touched.
BlockedLoginAnswer(id) ==
    /\ last'.res # Ok
    /\ last'.res = StatusError(users[id].status) <=> last'.rightPw
    /\ last'.rightPw
         => /\ last'.issuedStatus = Null
            /\ ledger' = ledger
            /\ users' = users
    /\ ~last'.rightPw
         => /\ last'.res = ErrInvalidCredentials
            /\ last'.failedDelta = 1
            /\ users'[id].failedLogins > 0

\* C20 as claimed (LoginSpec): every login for a BANNED or SUSPENDED account
\* tests the password before the status.
C20_PasswordBeforeStatus ==
    [][\A id \in UserIds :
          (last' # last /\ last'.op = "login" /\ last'.uid = Some(id)
             /\ users[id].status \in Blocked)
            => BlockedLoginAnswer(id)]_vars

\* C20 amended (LoginSpec): the same, for an account that is not locked at
\* the time of the call.
C20_PasswordBeforeStatusUnlessLocked ==
    [][\A id \in UserIds :
          (last' # last /\ last'.op = "login" /\ last'.uid = Some(id)
             /\ users[id].status \in Blocked /\ ~last'.lockedAtStart)
            => BlockedLoginAnswer(id)]_vars

\* C20 witness: a banned account with failed logins on record gave the right
\* password and was told it is banned; the failed logins are still on record
\* and it holds no refresh token.
C20_BannedRightPassword ==
    /\ last.op = "login" /\ last.rightPw /\ ~last.lockedAtStart
    /\ last.res = ErrBanned
    /\ users.u1.status = "BANNED"
    /\ users.u1.failedLogins >= 2
    /\ ledger = << >>

\* The reasons, other than reuse, for which a refresh with token t must fail:
\* no token, no row for its hash, or an unrevoked row that has expired or
\* whose owner is missing, banned or suspended.
FailsWithoutReuse(t) ==
    \/ t = Null
    \/ hashToken(Val(t)) \notin DOMAIN ledger
    \/ LET row == ledger[hashToken(Val(t))]
       IN  /\ row.revokedAt = Null
           /\ \/ row.expiresAt < now
              \/ row.userId \notin DOMAIN users
              \/ users[row.userId].status \in Blocked

\* C21 (RefreshFailSpec): a refresh that fails for a reason other than reuse
\* returns an AuthenticationError at once and leaves the token ledger and the
\* user store as they were; the statements of refresh that write are reached
\* only with a revoked row (reuse) or with a live row of an active owner.
C21_FailedRefreshWritesNothing ==
    /\ [](\A p \in Procs :
            /\ proc[p].pc = "reuse" => ledger[Val(proc[p].tok)].revokedAt # Null
            /\ proc[p].pc = "revoke"
                 => LET row == ledger[Val(proc[p].tok)]
                    IN  /\ row.revokedAt = Null
                        /\ row.expiresAt >= now
                        /\ users[row.userId].status \notin Blocked)
    /\ [][\A t \in PresentedTokens :
            (RefreshStart(1, t) /\ FailsWithoutReuse(t))
              => /\ last'.op = "refresh"
                 /\ last'.res.type = "AuthenticationError"
                 /\ last'.res # ErrTokenRevoked
                 /\ ledger' = ledger
                 /\ users' = users
                 /\ proc' = proc]_vars

\* C21 witness: a refresh was refused because the token had expired, and the
\* token's row is still there, unrevoked, with no successor.
C21_ExpiredLeftAlone ==
    /\ last.op = "refresh" /\ last.res = ErrTokenExpired
    /\ \E h \in DOMAIN ledger :
          /\ ledger[h].revokedAt = Null
          /\ ledger[h].expiresAt < now
    /\ \A h \in DOMAIN ledger : ledger[h].replacedBy = Null

\* A step that runs revokeAllForUser for account id.
RevokeAllStep(id) ==
    \/ LogoutAll(id)
    \/ \E p \in Procs :
          /\ proc[p].uid = id
          /\ RefreshReuse(p) \/ ChangePasswordRevoke(p) \/ ResetPasswordRevoke(p)

\* C22 (RevokeAllSpec): every revoke-all step for an account stamps every
\* unrevoked refresh token of that account as revoked and changes nothing
\* else: the rows of other accounts and the rows already revoked stay as
\* they were, and no row appears or disappears.
C22_RevokeAllFrame ==
    [][\A id \in UserIds :
          RevokeAllStep(id)
            => /\ DOMAIN ledger' = DOMAIN ledger
               /\ \A h \in DOMAIN ledger :
                     IF ledger[h].userId = id /\ ledger[h].revokedAt = Null
                     THEN /\ ledger'[h].revokedAt # Null
                          /\ ledger'[h] = [ledger[h] EXCEPT !.revokedAt = ledger'[h].revokedAt]
                     ELSE ledger'[h] = ledger[h]]_vars

\* C22 witness: logoutAll for alice revoked her live token now, left the one
\* revoked earlier by rotation with its date, and left bob's token live.
C22_OthersUntouched ==
    /\ last.op = "logoutAll"
    /\ \E h1, h2, h3 \in DOMAIN ledger :
          /\ ledger[h1].userId = "u1" /\ ledger[h1].revokedAt = Some(now)
          /\ ledger[h2].userId = "u1" /\ ledger[h2].revokedAt # Null
          /\ Val(ledger[h2].revokedAt) < now /\ ledger[h2].replacedBy = Some(h1)
          /\ ledger[h3].userId = "u2" /\ ledger[h3].revokedAt = Null

\* The rules of the contract that a password breaks: 8 characters at least,
\* 128 at most, a letter, a digit.
BrokenRules(pw) ==
    LET shape == PasswordShape[pw] IN
    (IF shape.length < 8 THEN {"min"} ELSE {}) \cup
    (IF shape.length > 128 THEN {"max"} ELSE {}) \cup
    (IF ~shape.hasLetter THEN {"letter"} ELSE {}) \cup
    (IF ~shape.hasNumber THEN {"number"} ELSE {})

\* C23 (WeakPasswordSpec): when register, resetPassword or changePassword
\* refuses a password for its strength, the ValidationError lists one entry
\* for each rule the password breaks, and so at least one.
C23_FeedbackForEveryRule ==
    (/\ last.op \in {"register", "resetPassword", "changePassword"}
     /\ last.res.type = "ValidationError"
     /\ last.res.message # << >>
     /\ Head(last.res.message) = "Password does not meet requirements")
        => /\ BrokenRules(last.pw) # {}
           /\ Len(Tail(last.res.message)) = Cardinality(BrokenRules(last.pw))

\* C24 (VerifyModerationSpec): an account that is SUSPENDED or BANNED leaves
\* that status only by activateUser; verifyEmail with the stored token does
\* not lift it.
C24_VerifyKeepsModeration ==
    [][\A id \in DOMAIN users :
          (users[id].status \in Blocked /\ users'[id].status # users[id].status)
            => /\ last'.op \in {"activateUser", "suspendUser", "banUser"}
               /\ last'.uid = Some(id)
               /\ users'[id].status \notin Blocked => last'.op = "activateUser"]_vars

\* C25 (AbsentTokenSpec): verifyEmail and resetPassword called with the token
\* field absent (undefined or null) match no account, fail with
\* ValidationError and change no account.
C25_AbsentTokenMatchesNothing ==
    /\ [](\A p \in Procs :
            proc[p].pc \in {"verify", "rpUpdate", "rpRevoke"}
              => proc[p].tok \notin {Absent, JsNull})
    /\ [][(last' # last /\ last'.op \in {"verifyEmail", "resetPassword"} /\ last'.absent)
            => /\ last'.res.type = "ValidationError"
               /\ users' = users]_vars

\* C26 (LoginMixSpec): whenever no login is in flight, an account that is
\* locked has at least 5 failed logins on record, so that a successful login
\* is followed by a lock only after 5 further failures.
C26_LockedImpliesCounted ==
    (Quiet /\ isLocked(users.u1, now)) => users.u1.failedLogins >= LockThreshold

\* C27 (LoginSpec): an account whose lock has passed is locked again only
\* after 5 further failed logins.  A lock is set with at least 5 failed logins
\* on record and none is counted while it lasts, so a step that puts a new
\* lock in the place of one that has passed leaves at least 10 on record.
C27_FreshAllowanceAfterExpiry ==
    [][\A id \in UserIds :
          (/\ users[id].lockedUntil # Null
           /\ ~isLocked(users[id], now)
           /\ users'[id].lockedUntil # Null
           /\ users'[id].lockedUntil # users[id].lockedUntil)
            => users'[id].failedLogins >= LockThreshold + LockThreshold]_vars

\* C28 (AdminSpec): for a target whose role is ADMIN, changeRole,
\* suspendUser, banUser and deleteUser fail with AuthorizationError for every
\* actor and change nothing; and no step changes the role or the status of
\* an ADMIN or deletes it.
C28_AdminUntouchable ==
    /\ [](\A t \in DOMAIN users : \A actor \in DOMAIN users :
            users[t].role = "ADMIN"
              => /\ \A role \in Roles :
                       /\ changeRole(users, t, role, actor).res.type = "AuthorizationError"
                       /\ changeRole(users, t, role, actor).users = users
                 /\ suspendUser(users, t, actor).res.type = "AuthorizationError"
                 /\ suspendUser(users, t, actor).users = users
                 /\ banUser(users, t, actor).res.type = "AuthorizationError"
                 /\ banUser(users, t, actor).users = users
                 /\ deleteUser(users, t, actor).res.type = "AuthorizationError"
                 /\ deleteUser(users, t, actor).users = users)
    /\ [][\A t \in DOMAIN users :
            users[t].role = "ADMIN"
              => /\ t \in DOMAIN users'
                 /\ users'[t].role = "ADMIN"
                 /\ users'[t].status = users[t].status]_vars

\* C28 witness: an ADMIN asked to delete another ADMIN and was refused.
C28_DeleteAdminRefused ==
    /\ last.op = "deleteUser" /\ last.res = ErrDeleteAdmin
    /\ Val(last.uid) # Val(last.actor)
    /\ users[Val(last.uid)].role = "ADMIN"
    /\ users[Val(last.actor)].role = "ADMIN"

\* C29 (Spec): a row's replacedBy, once set by a rotation, is never cleared
\* or changed while the row exists, and only revoked rows carry one.
C29_AuditLinkStable ==
    /\ [](\A h \in DOMAIN ledger : ledger[h].replacedBy # Null => ledger[h].revokedAt # Null)
    /\ [][\A h \in DOMAIN ledger :
            (ledger[h].replacedBy # Null /\ h \in DOMAIN ledger')
              => ledger'[h].replacedBy = ledger[h].replacedBy]_vars

\* C30 (PresenceSpec): a user is listed by getOnlineUsers exactly when a
\* socket accepted for that user is still open.
C30_OnlineIffOpenSocket ==
    \A id \in UserIds :
        id \in getOnlineUsers(connections)
          <=> \E s \in Sockets :
                sockets[s].accepted /\ sockets[s].open /\ sockets[s].uid = id

====
